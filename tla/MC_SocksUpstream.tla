------------------------- MODULE MC_SocksUpstream --------------------------
(***************************************************************************)
(* SocksUpstream instantiated for TLC: three requests on two reactor      *)
(* threads, an upstream host that resolves to two endpoints of which any  *)
(* may refuse a given connection attempt.                                 *)
(***************************************************************************)
EXTENDS SocksUpstream

CONSTANTS r1, r2, r3, t1, t2, e1, e2

MCReq == {r1, r2, r3}
MCThreads == {t1, t2}
(* r1 and r2 race on different threads; r3 shares r1's thread.           *)
MCThreadOf == (r1 :> t1) @@ (r2 :> t2) @@ (r3 :> t1)
MCResolverResults == <<e1, e2>>
MCReachable == {e1, e2}

(* One reactor thread: every request runs on t1.                          *)
MCOneThread == [r \in MCReq |-> t1]
=============================================================================
