----------------------------- MODULE ByteStream -----------------------------
(***************************************************************************)
(* One direction of a TCP conversation as either end may expect it: bytes  *)
(* come out in the order they went in, none twice, and the end is seen     *)
(* after the last of them, unless the stream was cut.                      *)
(***************************************************************************)
EXTENDS Naturals

VARIABLES
  sent,   \* bytes accepted from the source
  fin,    \* the source has said that there are no more
  got,    \* what the sink was given, each byte by its place in the stream
  ended,  \* the sink was told that this is the end
  cut     \* bytes may be missing at the end

vars == <<sent, fin, got, ended, cut>>

Bytes(n) == [i \in 1 .. n |-> i]

Init == sent = 0 /\ ~fin /\ got = Bytes(0) /\ ~ended /\ ~cut

Send == ~fin /\ sent' \in Nat /\ sent' > sent /\ UNCHANGED <<fin, got, ended, cut>>
Finish == ~fin /\ fin' /\ UNCHANGED <<sent, got, ended, cut>>

\* At least one more byte is delivered.
Deliver ==
  /\ ~ended
  /\ \E n \in 1 .. sent : got' = Bytes(n) /\ got' # got /\ \E m \in 0 .. n : got = Bytes(m)
  /\ UNCHANGED <<sent, fin, ended, cut>>

End ==
  /\ ~ended /\ ended'
  /\ cut \/ (fin /\ got = Bytes(sent))
  /\ UNCHANGED <<sent, fin, got, cut>>

Cut == ~cut /\ cut' /\ UNCHANGED <<sent, fin, got, ended>>

Next == Send \/ Finish \/ Deliver \/ End \/ Cut

Spec == Init /\ [][Next]_vars
=============================================================================
