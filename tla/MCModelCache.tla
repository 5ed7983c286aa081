---------------------------- MODULE MCModelCache ----------------------------
(* The server (two requests at a time) and a worker node (its main         *)
(* process, which preloads, and a pool process) with an embedding and a    *)
(* rerank model.                                                           *)
EXTENDS ModelCache, TLC

CONSTANTS m1, m2, server, main, pool, request, second, bootstrap, task

TwoParents == (server :> server) @@ (main :> main) @@ (pool :> main)

FourThreads == (request :> server) @@ (second :> server)
               @@ (bootstrap :> main) @@ (task :> pool)

BothModels == (request :> <<m2, m1>>) @@ (second :> <<m2>>)
              @@ (bootstrap :> <<m1>>) @@ (task :> <<m1, m2>>)
=============================================================================
