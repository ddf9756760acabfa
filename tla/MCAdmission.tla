----------------------------- MODULE MCAdmission -----------------------------
EXTENDS Admission

CONSTANTS j1, j2, j3

Job(class, roles, repo, root) ==
    [class |-> class, roles |-> roles, repo |-> repo, worktree |-> NULL, branch |-> NULL,
     target |-> NULL, roots |-> root, depends_on |-> NULL, action |-> "NONE"]

Reader == Job("LIGHT", <<"analyst">>, "r", {})
Writer(root) == Job("LIGHT", <<"lead", "implementer">>, "r", root)
Lone == <<"implementer">>

Over == Job("LIGHT", <<>>, NULL, {})

MCPortfolios ==
  { \* a directory, a file below it, and a reader of the same repository
    (j1 :> Writer({<<"a">>}) @@ j2 :> Job("LIGHT", Lone, "r", {<<"a", "b">>}) @@ j3 :> Over),
    (j1 :> Reader @@ j2 :> Job("LIGHT", <<"qa">>, "r", {<<"a">>}) @@ j3 :> Reader),
    \* roots that normalize apart, and a declaration that is refused
    (j1 :> Job("LIGHT", Lone, "r", {<<"a", "..", "c">>}) @@ j2 :> Job("LIGHT", Lone, "r", {<<"a", "d">>}) @@ j3 :> Over),
    (j1 :> Job("LIGHT", Lone, "r", {<<"a", "b">>}) @@ j2 :> Job("LIGHT", <<"qa">>, "r", {<<"..", "a">>}) @@ j3 :> Over),
    \* one worktree for two repositories, and a repository-wide reader
    (j1 :> [Writer({<<"a">>}) EXCEPT !.worktree = "w"] @@ j2 :> [Job("LIGHT", Lone, "q", {<<"c">>}) EXCEPT !.worktree = "w"] @@ j3 :> Over),
    (j1 :> Writer({<<"a">>}) @@ j2 :> [Reader EXCEPT !.action = "REPO_GLOBAL"] @@ j3 :> Over),
    \* classes that share the host
    (j1 :> Job("HEAVY", <<"analyst">>, "r", {<<"a">>}) @@ j2 :> Job("MEDIUM", <<"analyst">>, "q", {<<"a">>})
       @@ j3 :> Over),
    (j1 :> Job("HEAVY", <<"analyst">>, "r", {<<"a">>}) @@ j2 :> Reader @@ j3 :> Reader),
    (j1 :> Job("EXCLUSIVE", <<"analyst">>, "r", {<<"a">>}) @@ j2 :> Writer({}) @@ j3 :> Over),
    \* a global action and a dependent, and a job whose prerequisite is unknown
    (j1 :> [Reader EXCEPT !.action = "GLOBAL"] @@ j2 :> Over
       @@ j3 :> [Reader EXCEPT !.depends_on = j1]),
    (j1 :> [Reader EXCEPT !.depends_on = "ghost"] @@ j2 :> [Reader EXCEPT !.action = "GLOBAL"]
       @@ j3 :> Job("LIGHT", Lone, NULL, {})) }

MCCalm == [known |-> TRUE, load_known |-> TRUE, total |-> 14, avail |-> 14, swap |-> 0,
           disk_low |-> FALSE, loaded |-> FALSE]
MCHostStates ==
    {[MCCalm EXCEPT !.known = FALSE], [MCCalm EXCEPT !.load_known = FALSE], [MCCalm EXCEPT !.swap = 75],
     [MCCalm EXCEPT !.avail = 6], [MCCalm EXCEPT !.disk_low = TRUE], [MCCalm EXCEPT !.loaded = TRUE]}

MCFiles == [repo : {"r", "q"}, path : {<<"a", "b">>, <<"a", "d">>, <<"c">>}]
=============================================================================
