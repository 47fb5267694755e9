------------------------------- MODULE MCLaunch -------------------------------
(* Small instances of Launch: a workflow of chunks with two of them by default.  Amounts *)
(* are in hundred thousandths of a dollar, space in thousandths of a gigabyte.           *)
EXTENDS Launch

MCWorkflow ==
    [program |-> "leanevolve-run", command |-> <<>>,
     defaults |-> <<Arg("--chunks", <<1, 1>>)>>,
     cost |-> "--max-api-costs", results |-> "--results-dir", model |-> "--model",
     plan |-> "--check-config", schedule |-> [flag |-> "--chunks", style |-> "chunks"],
     requires |-> {"lake", "shinka"}, ledgerRequired |-> TRUE]

MCToml ==
    [limit |-> 1234567, route |-> <<1>>, reserve |-> 1000, database |-> None, artifacts |-> None,
     requireExternal |-> FALSE, tools |-> {"lake"}]

\* Lean is installed through elan, as it commonly is.
Good ==
    [venv |-> TRUE, escape |-> FALSE, lockfile |-> "current", pins |-> TRUE, inputs |-> TRUE,
     path |-> {"uv", "mise", "git", "leanevolve-run"}, elan |-> TRUE, shinka |-> "pinned",
     writable |-> TRUE, free |-> 2000, external |-> FALSE, database |-> TRUE, artifacts |-> TRUE]

\* What may have become of it: an update of the environment that failed; another
\* interpreter, without Shinka, on a full disk and without the ledger's volume; a reserve
\* that is missed by less than doctor shows.
MCMachines ==
    {Good, [Good EXCEPT !.lockfile = "stale", !.path = @ \ {"leanevolve-run"}],
     [Good EXCEPT !.venv = FALSE, !.shinka = None, !.free = 0, !.database = FALSE],
     [Good EXCEPT !.free = 996]}

\* The ledger is configured, and nothing else.
MCFirstLocal == [NoOverrides EXCEPT !.database = 1, !.artifacts = 1]

Request(task, arguments, consent, request) ==
    [task |-> task, arguments |-> arguments, consent |-> consent, changes |-> request]
Run(arguments, consent) == Request("run", arguments, consent, NoOverrides)
Configure(request) == Request("configure", <<>>, "yes", request)

MCRequests ==
    {Run(<<>>, "yes"),
     Run(<<Arg("--max-api-costs", <<1>>), Arg("--spotlight", <<3>>),
           Arg("--results-dir", <<OwnDirectory>>)>>, "terminal"),
     Run(<<Arg("--check-config", <<>>)>>, "yes"),
     Run(<<>>, "batch"),
     Request("plan", <<>>, "batch", NoOverrides),
     Configure([NoOverrides EXCEPT !.limit = 1]),
     Configure([NoOverrides EXCEPT !.limit = -1]),
     Configure([NoOverrides EXCEPT !.database = 2])}
===============================================================================
