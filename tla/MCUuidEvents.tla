---------------------------- MODULE MCUuidEvents ----------------------------
(* Uuids no one of which begins with the number of a row.                  *)
EXTENDS UuidEvents

TheEventUuids == {"a", "b", "c"}
NoNumbers == [v \in TheEventUuids |-> 0]
=============================================================================
