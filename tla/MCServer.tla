------------------------------ MODULE MCServer ------------------------------
(* Small instances of Server for TLC. *)
EXTENDS Server, TLC

CONSTANTS c1, c2, k1, v1, v2, n0, n1, n9, secret

Numbers == (n0 :> 0) @@ (n1 :> 1) @@ (n9 :> 9)

(* Every kind of frame: for one client whose session is long. *)
SessionFrames ==
    {<<"set", k1, v1>>, <<"get", k1>>, <<"del", k1>>, <<"ttl", k1>>,
     <<"expire", k1, n0>>, <<"expire", k1, n1>>, <<"expire", k1, n9>>,
     <<"expire", k1, v1>>, <<"auth", secret>>, <<"auth", v1>>, <<"ping">>,
     <<"quit">>, <<"get">>, <<v1>>, <<NotBulk>>, <<>>, Malformed, Oversized}

(* Frames that are all answered, and the length that makes parse() panic. *)
PanicFrames == {<<"set", k1, v1>>, <<"get", k1>>, Oversized}

(* For clients that race each other and the shutdown. *)
RacingFrames == {<<"set", k1, v1>>, <<"del", k1>>, <<"auth", secret>>}
=============================================================================
