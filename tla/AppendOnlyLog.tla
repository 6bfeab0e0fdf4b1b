---------------------------- MODULE AppendOnlyLog ----------------------------
(***************************************************************************)
(* What an audit log promises whoever reads it: records are only ever added *)
(* at its end, and the records there are always form one linked chain.      *)
(***************************************************************************)
EXTENDS Naturals, Sequences

CONSTANT Linked(_)   \* whether a list of records is a chain
VARIABLE entries

Init == entries = << >>

Extend ==
    /\ Len(entries') >= Len(entries)
    /\ SubSeq(entries', 1, Len(entries)) = entries
    /\ Linked(entries')

Spec == Init /\ [][Extend]_entries
=============================================================================
