--------------------------- MODULE Configuration ---------------------------
(***************************************************************************)
(* internal/config/config.go: what Load makes of the environment.  Secrets *)
(* come from a variable or from the file that another variable names.  A   *)
(* setting that only has a fallback to lose is no part of this: time       *)
(* limits, origins, hosts and names.                                       *)
(*                                                                         *)
(* Texts stand for the forms the code tells apart: "" is unset, "absolute" *)
(* an absolute URL, "bytes" 32 bytes, "hex" 64 hexadecimal digits, "short" *)
(* any other text.  A text has no line break of its own.                   *)
(***************************************************************************)
EXTENDS Integers, Sequences

CONSTANTS
  Invalid,  \* what Load gives for an error
  Number    \* the texts that are numbers, as a function to what they say

Secrets ==
  {"DATABASE_URL", "PG_PASSWORD", "REDIS_PASSWORD", "IF_API_KEY", "SIGNED_LINK_SECRET"}

Settings ==
  {"APP_ENV", "PORT", "REDIS_PORT", "REDIS_DB", "UI_BASE_URL", "IF_API_BASE_URL",
   "JOBS_ENABLED"}

\* Where one secret may come from: KEY = value, KEY_FILE = path, and what is in
\* the file that is mounted there, the last line with or without a line break.
Source == [value : STRING, path : {"", "missing", "mounted"},
           text : STRING, newline : BOOLEAN]

IsEnvironment(e) ==
  /\ e = [k \in Secrets \cup Settings |-> e[k]]
  /\ \A k \in Secrets : e[k] \in Source
  /\ \A k \in Settings : e[k] \in STRING

env(value, fallback) == IF value = "" THEN fallback ELSE value

\* strconv.ParseBool
True == {"1", "t", "T", "true", "TRUE", "True"}
False == {"0", "f", "F", "false", "FALSE", "False"}

\* What a boolean would do that knows one word only.
booleanTrueOnly(value, fallback) == IF value = "" THEN fallback ELSE value = "true"

\* A text that says nothing is taken for one that is not set.
boolean(value, fallback) ==
  IF value \in True \cup False THEN value \in True ELSE fallback

integer(value, fallback) == IF value \in DOMAIN Number THEN Number[value] ELSE fallback

\* What a secret would be that is read as it stands in the file.
secretAsItStands(source, fallback) ==
  CASE source.value # "" /\ source.path # "" -> Invalid
    [] source.path = ""                      -> env(source.value, fallback)
    [] source.path = "missing"               -> Invalid
    [] OTHER -> IF source.newline THEN source.text \o "\n" ELSE source.text

\* The fallback is for a secret that is not set: an empty file is an empty secret.
secret(source, fallback) ==
  CASE source.value # "" /\ source.path # "" -> Invalid
    [] source.path = ""                      -> env(source.value, fallback)
    [] source.path = "missing"               -> Invalid
    [] OTHER                                 -> source.text

parseSignedLinkSecret(raw, environment) ==
  CASE raw = "" /\ environment = "local" -> "localSignedLinkSecretHex, decoded"
    [] raw = "hex"                       -> "hex, decoded"
    [] raw = "bytes"                     -> "bytes"
    [] OTHER                             -> Invalid

\* Never empty: Load has a check for that which cannot fail.
databaseURL(override, password) ==
  IF override # "" THEN <<override>> ELSE <<"postgres", password>>

\* Load, in the environment e.
Load(e) ==
  LET s == [k \in Secrets |-> secret(e[k], IF k = "PG_PASSWORD" THEN "iepass" ELSE "")]
      link == parseSignedLinkSecret(s["SIGNED_LINK_SECRET"], env(e.APP_ENV, "local"))
      jobs == boolean(e.JOBS_ENABLED, FALSE)
      database == integer(e.REDIS_DB, 0)
  IN  IF \/ \E k \in Secrets : s[k] = Invalid
         \/ link = Invalid
         \/ \E k \in {"UI_BASE_URL", "IF_API_BASE_URL"} : e[k] \notin {"", "absolute"}
         \/ \E k \in {"PORT", "REDIS_PORT"} : e[k] # "" /\ e[k] \notin DOMAIN Number
         \/ database < 0
         \/ jobs /\ s["IF_API_KEY"] = ""
        THEN Invalid
        ELSE [database |-> databaseURL(s["DATABASE_URL"], s["PG_PASSWORD"]),
              redis |-> <<env(e.REDIS_PORT, "6379"), s["REDIS_PASSWORD"], database>>,
              port |-> env(e.PORT, "8082"), jobs |-> jobs, key |-> s["IF_API_KEY"],
              link |-> link]

SetByValue(source) == source.value # "" /\ source.path = ""

\* The same environment with the secret k in a file.
Moved(e, k, newline) ==
  [e EXCEPT ![k] = [value |-> "", path |-> "mounted", text |-> e[k].value,
                    newline |-> newline]]
=============================================================================
