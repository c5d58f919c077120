------------------------------ MODULE MCProbe -------------------------------
(***************************************************************************)
(* Lookups of a name and of an address, an address with the wrong record   *)
(* type, a scan of three ports, one of them named twice, one of too many   *)
(* ports, and a dossier.  Messages are late, no reply, without a question, *)
(* cut short, too long, or answer one lookup or the other.                 *)
(***************************************************************************)
EXTENDS Probe

Lookups(target, record) == [action |-> "lookup", target |-> target, record |-> record, spec |-> <<>>]
Scans(target, spec) == [action |-> "scan", target |-> target, record |-> "Auto", spec |-> spec]
Piece(lo, hi) == [lo |-> lo, hi |-> hi, range |-> lo # hi]

MCScans ==
  { Scans("ip", <<Piece(3, 3), Piece(1, 2), Piece(3, 3)>>),
    Scans("name", <<Piece(2, 4), Piece(1, 1)>>) }
MCRequests ==
  MCScans \cup
  { Lookups("name", "A"), Lookups("ip", "A"), Lookups("ip", "Auto"),
    [action |-> "intel", target |-> "ip", record |-> "Auto", spec |-> <<>>] }

Forward == [target |-> "name", record |-> "A"]
Backward == [target |-> "ip", record |-> "PTR"]
Message(id, reply, questions, truncated, records) ==
  [whole |-> TRUE, id |-> id, reply |-> reply, truncated |-> truncated,
   questions |-> questions, records |-> records]

MCMessages ==
  { Message("stale", TRUE, <<Forward>>, FALSE, <<TRUE>>),
    Message("ours", FALSE, <<Forward>>, FALSE, <<>>),
    Message("ours", TRUE, <<>>, FALSE, <<TRUE>>),
    Message("ours", TRUE, <<Forward>>, TRUE, <<TRUE, FALSE>>),
    Message("ours", TRUE, <<Forward>>, FALSE, <<TRUE, TRUE, TRUE>>),
    Message("ours", TRUE, <<Backward, Forward>>, FALSE, <<TRUE>>) }
=============================================================================
