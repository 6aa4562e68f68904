------------------------------ MODULE MCWorker ------------------------------
(***************************************************************************)
(* A small instance for TLC of the worker's two halves, the outbox and the *)
(* execution of a job. They share no state, so that a behaviour moves one  *)
(* of them and leaves the other as it starts: part says which.             *)
(***************************************************************************)
EXTENDS WorkerOutbox, TestExecution, TLC

CONSTANTS j1, j2, s1, s2, token, key

VARIABLE part

(* The apps: one test captures a token and a later one needs it; one test  *)
(* needs a secret, key, whose value holds a "$".                           *)

Test(kind, retry, slo, needs, extracts, steps) ==
    [kind |-> kind, retry |-> retry, slo |-> slo,
     needs |-> needs, extracts |-> extracts, steps |-> steps]
Captures(retry) == Test("api", retry, FALSE, {}, {token}, <<>>)
Needs(kind, name) == Test(kind, 0, FALSE, {name}, {}, <<>>)

App(url, sequential, tests) ==
    [url |-> url, sequential |-> sequential, tests |-> tests]

SomeApps ==
    { App("http", FALSE, <<Captures(1), Test("api", 1, TRUE, {token}, {}, <<>>)>>),
      App("http", FALSE, <<Captures(0), Captures(0), Test("availability", 0, TRUE, {token}, {}, <<>>)>>),
      App("http", FALSE, <<Test("browser", 1, FALSE, {}, {}, <<"assert">>), Needs("availability", key)>>),
      App("http", TRUE, <<Test("tls", 1, FALSE, {}, {}, <<>>), Needs("availability", key)>>),
      App("http", FALSE, <<Test("browser", 0, TRUE, {}, {}, <<"act", "plain">>), Test("tls", 0, TRUE, {}, {}, <<>>)>>),
      App("http", FALSE, <<Test("browser", 0, FALSE, {}, {}, <<"unknown">>)>>),
      App("http", FALSE, <<Needs("api", token)>>),
      App("unsafe", FALSE, <<Test("availability", 0, FALSE, {}, {}, <<>>)>>) }

-----------------------------------------------------------------------------
MCInit ==
    /\ part \in {"outbox", "tests"} /\ Init /\ ExecInit
    /\ part = "outbox" => app.url = "unsafe"

MCNext ==
    /\ part' = part
    /\ \/ part = "outbox" /\ Next /\ UNCHANGED execVars
       \/ part = "tests" /\ ExecNext /\ UNCHANGED vars

MCSpec == MCInit /\ [][MCNext]_<<vars, execVars, part>> /\ Fairness

=============================================================================
