---------------------------- MODULE MCUtilities ----------------------------
(***************************************************************************)
(* Url, RuntimeError and SocketOpt for TLC.  The three share nothing: one  *)
(* of them runs, and the others stay as they begin.                        *)
(*                                                                         *)
(* Url: every text of up to three symbols, every text that begins as a URL *)
(* does with five symbols more, and the URLs made of some parts.           *)
(*                                                                         *)
(* RuntimeError: objects are interchangeable.                              *)
(*                                                                         *)
(* SocketOpt: ten milliseconds to a second, a tick of two of them, ints of *)
(* six bits.  The values asked for are the ends of the range, a whole      *)
(* number of seconds, one within a second, one within a tick and the       *)
(* negative ones the timeouts treat differently.  Two options at a time    *)
(* show whether one disturbs another.                                      *)
(***************************************************************************)
EXTENDS Url, RuntimeError, SocketOpt

VARIABLE part   \* which of the three runs

DigitVal  == [d \in {"0", "8"} |-> IF d = "0" THEN 0 ELSE 8]
OthersVal == {"x"}

Alphabet == {":", "/", "[", "]", "-", "8", "x"}

TextsVal ==
    BoundedSeq(Alphabet, 3)
    \cup {<<"x", ":", "/", "/">> \o s : s \in BoundedSeq(Alphabet, 5)}
    \cup {<<"8", "x", ":", "/", "/", "[", "8">> \o s \o <<"]", ":", "8", "0">> :
            s \in BoundedSeq(Alphabet, 2)}

PartsVal ==
    BoundedSeq({"x", "8"}, 2)
    \X BoundedSeq({":", "8", "x", "["}, 3)
    \X {-1, 0, 8, 80}

Values == {-10, -3, 0, 1, 4, 13, 31}

Symmetry == Permutations(Obj)

AllInit ==
    /\ part \in {"url", "error", "options"}
    /\ UrlInit /\ (part # "url" => given = <<>> /\ str = <<>>)
    /\ Init
    /\ OptInit

AllNext ==
    /\ \/ part = "url" /\ UrlNext /\ UNCHANGED <<vars, optVars>>
       \/ part = "error" /\ Next /\ UNCHANGED <<urlVars, optVars>>
       \/ part = "options" /\ OptNext /\ UNCHANGED <<urlVars, vars>>
    /\ UNCHANGED part

AllSpec == AllInit /\ [][AllNext]_<<part, urlVars, vars, optVars>>

=============================================================================
