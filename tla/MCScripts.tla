----------------------------- MODULE MCScripts -----------------------------
(* Model values for Scripts: requests of one task and one of another, among   *)
(* them a message that cannot be parsed, a language the worker does not know,  *)
(* variables the handler cannot parse, and an execution without code.         *)
EXTENDS Scripts

Of(kind, task, language, code, args, variables) ==
    [kind |-> kind, task |-> task, language |-> language, parses |-> TRUE, code |-> code,
     args |-> args, variables |-> variables]

MCInputs == {
    Of("worker", 1, "shell", TRUE, TRUE, "bad"),
    Of("worker", 1, "python", TRUE, TRUE, "good"),
    Of("worker", 1, "other", TRUE, TRUE, "none"),
    [Of("worker", 1, "shell", TRUE, TRUE, "none") EXCEPT !.parses = FALSE],
    Of("handler", 1, "shell", TRUE, TRUE, "good"),
    Of("handler", 1, "shell", TRUE, FALSE, "bad"),
    Of("handler", 1, "python", TRUE, FALSE, "good"),
    Of("handler", 2, "python", FALSE, TRUE, "none"),
    Of("handler", 2, "shell", TRUE, TRUE, "none")}
=============================================================================
