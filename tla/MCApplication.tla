--------------------------- MODULE MCApplication ---------------------------
(***************************************************************************)
(* The frames the server sends in the run of Application.                  *)
(***************************************************************************)
EXTENDS Application

Frame(kind, tokens) == [kind |-> kind, tokens |-> tokens]

SomeFrames ==
    {Frame("tick", {"t1"}), Frame("tick", {"t1", "t2"}), Frame("short", {}),
     Frame("text", {}), Frame("cut short", {"t1"})}
=============================================================================
