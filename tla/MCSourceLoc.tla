----------------------------- MODULE MCSourceLoc -----------------------------
(***************************************************************************)
(* A preprocessed file and an original one, with lines that are empty, one *)
(* short of a fragment, exactly one and several; a marker every two lines. *)
(* The original file may be missing.                                       *)
(***************************************************************************)
EXTENDS SourceLoc

Files(pp, orig) == [n \in {"pp", "orig"} |-> IF n = "pp" THEN pp ELSE orig]
With(may, tolerate) ==
    [mayOpenFiles |-> may, tolerateHashlineErrors |-> tolerate, useOriginalOffset |-> TRUE]

MCSettings ==
    {<<Files(<<5, 0, 2>>, <<1, 4>>), With(TRUE, TRUE)>>,
     <<Files(<<1, 2, 0, 1>>, <<2>>), With(TRUE, FALSE)>>,
     <<Files(<<0, 1, 1>>, <<5>>), With(FALSE, TRUE)>>,
     <<Files(<<2, 2>>, <<0, 0, 1>>), [With(TRUE, TRUE) EXCEPT !.useOriginalOffset = FALSE]>>,
     <<[n \in {"pp"} |-> <<3, 1, 1, 0>>], With(TRUE, TRUE)>>}

MCDirectives ==
    {[origLine |-> 1, origFname |-> "orig"], [origLine |-> 3, origFname |-> "orig"],
     [origLine |-> 2, origFname |-> "pp"]}
=============================================================================
