---------------------------- MODULE CommandOptions ----------------------------
(***************************************************************************)
(* The command line of agentsearch (config.ParseArgs): which combinations  *)
(* of flags are accepted, and the configuration they select.  A line maps  *)
(* the flags given to a class of their values.  "times" stands for rt and  *)
(* tt, "tuning" for the other options of website searches and "argument"   *)
(* for words after the flags.                                              *)
(***************************************************************************)
EXTENDS Sequences, FiniteSets

CONSTANTS
    Lines,        \* command lines considered
    FileTargets   \* what a file of -f may list: sequences of targets

\* The flags that select one target of their own, in the order of precedence.
Lookups == {"bitcoin-tx", "bitcoin", "ip", "domain", "email"}
PasswordInputs == {"password", "password-prompt"}
PasswordFlags == PasswordInputs \cup {"password-backend", "password-db"}
Outputs == {"services", "times", "o", "of", "rf", "ai", "ai-config"}
WebsiteFlags == (Outputs \ {"services"}) \cup {"u", "f", "s", "tuning", "argument"}

Given(line, f) == f \in DOMAIN line
Is(line, f, value) == Given(line, f) /\ line[f] = value

Refused == [mode |-> "refused"]

\* The first of these that is given decides.
Selected(line) ==
    CASE Given(line, "watch-file") -> "watch"
      [] ~Given(line, "watch-file") /\ DOMAIN line \cap PasswordInputs # {} -> "password"
      [] OTHER ->
            LET given == DOMAIN line \cap Lookups IN
            CASE "bitcoin-tx" \in given -> "bitcoin-tx"
              [] "bitcoin-tx" \notin given /\ "bitcoin" \in given -> "bitcoin"
              [] given \cap {"bitcoin-tx", "bitcoin"} = {} /\ "ip" \in given -> "ip"
              [] given \subseteq {"domain", "email"} /\ "domain" \in given -> "domain"
              [] given = {"email"} -> "email"
              [] OTHER -> "websites"

\* Faulty variant: the password's flags may be combined with any other.
AllowedBesidePassword(mode) == WebsiteFlags \cup Outputs \cup PasswordFlags \cup Lookups \cup {"watch-file", "watch-options"}

\* The only flags that may be given in a mode; a website search ignores words after its flags.
Allowed(mode) ==
    CASE mode = "watch" -> {"watch-file", "watch-options", "s", "services", "times"}
      [] mode = "password" -> PasswordFlags \cup Outputs
      [] mode \in Lookups -> {mode} \cup Outputs
      [] mode = "websites" -> WebsiteFlags

WatchAccepted(line) ==
    /\ Is(line, "watch-file", "path") /\ ~Is(line, "watch-options", "invalid")
    /\ Given(line, "times") => line["times"] = "short"

\* Exactly one input, a known backend, and a database for the local one only.
PasswordAccepted(line) ==
    /\ Given(line, "password") => line["password"] = "value" /\ ~Given(line, "password-prompt")
    /\ ~Is(line, "password-prompt", "false")
    /\ ~Is(line, "password-backend", "other")
    /\ Given(line, "password-db") =>
          Is(line, "password-backend", "local") /\ line["password-db"] # "empty"

WebsitesAccepted(line) ==
    (Given(line, "u") /\ line["u"] # "empty") \/ Is(line, "f", "path")

\* Flags that are repeated or have unparseable values, and what each mode requires.
Accepted(line) ==
    LET mode == Selected(line) IN
    /\ ~Is(line, "password", "twice") /\ DOMAIN line \subseteq Allowed(mode)
    /\ CASE mode = "watch" -> WatchAccepted(line)
         [] mode = "password" -> PasswordAccepted(line) /\ ~Is(line, "times", "negative")
         [] mode \in Lookups -> line[mode] = "valid" /\ ~Is(line, "times", "negative")
         [] mode = "websites" -> WebsitesAccepted(line)

\* The formats; a format that is not known refuses the line.
Formats(line, flag, default) ==
    IF ~Given(line, flag) THEN default ELSE IF line[flag] = "none" THEN <<>> ELSE <<line[flag]>>

FormatsAccepted(line) ==
    /\ ~Is(line, "of", "unknown") /\ ~Is(line, "rf", "unknown")
    /\ Is(line, "ai", "true") => ~(Is(line, "of", "none") /\ Is(line, "rf", "none"))

\* The address of a lookup, then -u, then the lines of the file of -f.
LineTargets(line) ==
    LET lookup == IF Selected(line) \in Lookups THEN <<<<"x">>>> ELSE <<>>
        single == IF Given(line, "u") /\ line["u"] # "empty" THEN <<<<line["u"]>>>> ELSE <<>>
        listed == IF Is(line, "f", "path") THEN FileTargets ELSE {<<>>} IN
    {lookup \o single \o targets : targets \in listed}

\* LocalPasswordPath: the local backend's database comes from its flag or from a services
\* file, which must be valid when it is given.
LocalPath(line) ==
    IF Given(line, "services") THEN {TRUE, FALSE} ELSE {Given(line, "password-db")}

\* The configurations a line may give, or Refused: a file it names may be unreadable.
ParseArgs(line) ==
    LET mode == Selected(line)
        local == mode = "password" /\ Is(line, "password-backend", "local")
        config(t) ==
            [mode |-> mode, targets |-> t, prompt |-> Given(line, "password-prompt"), local |-> local,
             dir |-> IF Given(line, "o") THEN line["o"] ELSE "output",
             formats |-> Formats(line, "of", <<"json">>),
             reports |-> Formats(line, "rf", <<"cli">>),
             ai |-> Is(line, "ai", "true")]
        accepted == Accepted(line) /\ (mode = "watch" \/ FormatsAccepted(line)) IN
    (IF accepted /\ (local => TRUE \in LocalPath(line)) THEN {config(t) : t \in LineTargets(line)} ELSE {})
    \cup (IF accepted /\ ~Given(line, "f") /\ (local => FALSE \notin LocalPath(line)) THEN {} ELSE {Refused})

\* A configuration names one mode, and only what that mode needs.
WellFormedConfig(c) ==
    /\ c.mode \in {"watch", "password", "websites"} \cup Lookups
    /\ c.mode \in {"watch", "password"} => c.targets = <<>>
    /\ c.mode \in Lookups => Len(c.targets) = 1
    /\ c.prompt \/ c.local => c.mode = "password"
    /\ c.ai => c.formats # <<>> \/ c.reports # <<>>

=============================================================================
