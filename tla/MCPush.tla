------------------------------- MODULE MCPush -------------------------------
(***************************************************************************)
(* An instance of Push: files with keys given twice, values that do not    *)
(* parse, a key no signer takes, and two servers, one of them also behind  *)
(* an iroh endpoint.                                                       *)
(***************************************************************************)
EXTENDS Push, TLC

CONSTANTS b1, b2, o1, o2

Line(k, v) == [key |-> k, value |-> v]

Server1 == <<Line("server", "s1"), Line("server", "s2")>>
Server2 == <<Line("private-key", "nsec"), Line("server", "s2")>>
Key     == <<Line("chunk-size", "16M"), Line("private-key", "nsec"), Line("chunk-size", "0")>>
Iroh    == <<Line("transport", "udp"), Line("iroh-endpoint", "e1"), Line("transport", "iroh")>>
NoKey   == <<Line("private-key", "zero"), Line("iroh-endpoint", "e1"), Line("transport", "http"),
             Line("server", "")>>

MCValues == {"s1", "s2", "nsec", "zero", "16M", "0", "e1", "udp", "iroh", "http", ""}

MCContents == {Absent, Unreadable, Server1, Server2, Key, Iroh, NoKey}

NoEnv == [k \in EnvNames |-> None]

MCEnvs == {NoEnv, [NoEnv EXCEPT !["server"] = "s1", !["private-key"] = "secret", !["iroh-endpoint"] = "e1"]}

MCSymmetry == Permutations({o1, o2})

MCStoreOf == "s1" :> b1 @@ "s2" :> b2 @@ "e1" :> b1

=============================================================================
