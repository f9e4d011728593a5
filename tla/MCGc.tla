-------------------------------- MODULE MCGc --------------------------------
(***************************************************************************)
(* The collector with two closures over one upvalue, and lua_setupvalue.   *)
(***************************************************************************)
EXTENDS LjGc

TwoClosures == {[f1 |-> "func", f2 |-> "func", uv |-> "upval", s |-> "str"]}

=============================================================================
