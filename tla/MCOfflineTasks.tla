--------------------------- MODULE MCOfflineTasks ---------------------------
(***************************************************************************)
(* Instances of OfflineTasks for TLC.                                      *)
(***************************************************************************)
EXTENDS OfflineTasks, TLC

CONSTANTS h1, h2, h3, p1, p2, c1, c2, t1, t2, t3

(* The tasks of the first client, which retries with another url, are its  *)
(* own; the third task is ordered by a client that does not name its       *)
(* requests as well.                                                       *)
OwnAndSharedOrders ==
    {<<p1, c1, t1>>, <<p1, c1, t2>>, <<p1, c2, t3>>, <<p1, NoClient, t3>>}

(* One key, two urls.                                                      *)
OneKeyOrders == {<<p1, c1, t1>>, <<p1, c1, t2>>}

(* One url from two profiles, and another under the key of the first.      *)
CrossProfileOrders == {<<p1, c1, t1>>, <<p2, c1, t1>>, <<p1, c1, t2>>}

SingleOrder == {<<p1, c1, t1>>}

(* A download that succeeds or fails.                                      *)
Progress == {<<"todo", "running">>, <<"running", "done">>, <<"running", "failed">>}

\* ... whose code the driver does not know for a while.
UnclearProgress == Progress \cup {<<"done", "other">>, <<"other", "done">>}

ShortProgress == {<<"todo", "running">>}

NoProgress == {}

HandlerSymmetry == Permutations(Handlers)
=============================================================================
