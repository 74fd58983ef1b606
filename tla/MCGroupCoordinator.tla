------------------------- MODULE MCGroupCoordinator -------------------------
(***************************************************************************)
(* Instances of GroupCoordinator for TLC.                                  *)
(***************************************************************************)
EXTENDS GroupCoordinator

\* A member that knows both strategies, and one that knows only one.
MCProtocolLists == {<<"roundrobin", "range">>, <<"range">>}
=============================================================================
