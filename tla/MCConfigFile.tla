---------------------------- MODULE MCConfigFile ----------------------------
(* Two options, one of which may be null, and one of the user; integers of    *)
(* three bits.                                                               *)
EXTENDS ConfigFile

SmallNumbers == {-1, 0, 2, 9}
=============================================================================
