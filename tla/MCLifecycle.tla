---------------------------- MODULE MCLifecycle ----------------------------
(***************************************************************************)
(* Instances of Lifecycle for TLC: three jobs, up to two requests, and the *)
(* environments in which one secret and one other setting are set.         *)
(***************************************************************************)
EXTENDS Lifecycle

CONSTANTS j1, j2, j3

SomeNumbers == [text \in {"-1", "2", "8080"} |->
                  CASE text = "-1" -> -1 [] text = "2" -> 2 [] text = "8080" -> 8080]

Nowhere == [value |-> "", path |-> "", text |-> "", newline |-> FALSE]

\* Unset; in the environment, in a file, or in both.
Sources(k) ==
  LET texts == IF k = "SIGNED_LINK_SECRET" THEN {"short", "bytes", "hex"} ELSE {"short"}
  IN  [value : {""} \cup texts, path : {""}, text : {""}, newline : {FALSE}]
        \cup [value : {""}, path : {"mounted"}, text : {""} \cup texts, newline : BOOLEAN]
        \cup [value : {"", "short"}, path : {"missing"}, text : {""}, newline : {FALSE}]

Variants == [APP_ENV |-> {"", "production"}, PORT |-> {"8080", "http"},
             REDIS_PORT |-> {"8080", "http"}, REDIS_DB |-> {"2", "-1", "two"},
             UI_BASE_URL |-> {"absolute", "relative"},
             IF_API_BASE_URL |-> {"absolute", "relative"},
             JOBS_ENABLED |-> {"true", "1", "yes", "false"}]

Unset == [k \in Secrets \cup DOMAIN Variants |-> IF k \in Secrets THEN Nowhere ELSE ""]

OneSecretOneSetting ==
  UNION {{[Unset EXCEPT ![k] = source, ![setting] = value] :
            source \in Sources(k), value \in Variants[setting]} :
           k \in Secrets, setting \in DOMAIN Variants}
=============================================================================
