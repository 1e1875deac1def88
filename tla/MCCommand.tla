------------------------------- MODULE MCCommand -------------------------------
(* CommandRun for command lines of every mode, files of two targets of which one's     *)
(* name is the other's report, and searches that give up to three rows.              *)
EXTENDS CommandRun

File == "f" :> "path"
User == "u" :> "x"
Input == "password" :> "value"
Asked == "password-prompt" :> "true"
Backend == "password-backend" :> "local"
Database == "password-db" :> "path"
Address == "bitcoin" :> "valid"
Mail == "email" :> "valid"
WithAI == "ai" :> "true"
Elsewhere == "o" :> "results"
NoFormats == "of" :> "none"
NoReports == "rf" :> "none"

MCLines ==
    {User, File, User @@ File, User @@ Elsewhere, User @@ ("of" :> "csv") @@ ("rf" :> "json"),
     User @@ ("of" :> "html") @@ NoReports @@ Elsewhere, User @@ ("times" :> "negative"),
     User @@ ("services" :> "path"), User @@ ("of" :> "unknown"), "u" :> "empty",
     "s" :> "path", File @@ NoFormats @@ NoReports,
     Input, Asked, Input @@ Asked, "password-prompt" :> "false", "password" :> "empty",
     "password" :> "twice", Input @@ Backend, Asked @@ Backend @@ Database,
     Input @@ Backend @@ ("services" :> "path"), Input @@ ("password-backend" :> "other"),
     Backend @@ User, Input @@ Database, Input @@ Backend @@ ("password-db" :> "empty"), Input @@ User,
     Asked @@ File, Input @@ WithAI @@ NoReports, Input @@ Mail, Input @@ NoFormats @@ NoReports,
     Address, Address @@ WithAI @@ NoReports, Address @@ WithAI @@ NoFormats @@ NoReports,
     Address @@ User, Address @@ Mail, "bitcoin" :> "invalid",
     Mail @@ Elsewhere, Mail @@ NoReports, Mail @@ ("times" :> "negative"),
     "domain" :> "valid", "ip" :> "valid", "bitcoin-tx" :> "valid",
     "watch-file" :> "path", ("watch-file" :> "path") @@ ("watch-options" :> "invalid"),
     ("watch-file" :> "path") @@ ("times" :> "short"), ("watch-file" :> "path") @@ Input,
     ("watch-file" :> "path") @@ ("times" :> "long"), "watch-file" :> "empty", "watch-options" :> "valid"}

MCFileTargets == {<<>>, <<<<"x">>, <<"x", "report">>>>}

Row(source, type, target, status, meta, evidence, order) ==
    [source |-> source, type |-> type, target |-> target, status |-> status, meta |-> meta,
     evidence |-> evidence, order |-> order]
Item(kind, order) == [kind |-> kind, order |-> order]

BitcoinRows ==
    {Row("bitcoin", "api", "bitcoin", "found", "none", <<Item("crypto_transaction", 2), Item("crypto_counterparty", 1)>>, 1),
     Row("bitcoin", "api", "bitcoin", "found", "truncated", <<>>, 2),
     Row("bitcoin-labels", "api", "bitcoin", "not_found", "none", <<Item("oversized", 1)>>, 3),
     Row("bitcoin-labels", "api", "bitcoin", "error", "none", <<>>, 4)}
EmailRows ==
    {Row("hibp", "api", "email", "found", "none", <<Item("breach", 1)>>, 1),
     Row("hibp", "api", "email", "error", "none", <<>>, 2),
     Row("hibp", "api", "email", "blocked", "partial", <<>>, 3),
     Row("other", "api", "email", "found", "none", <<>>, 4),
     Row("other", "api", "email", "unspecified", "none", <<>>, 5),
     Row("other", "api", "email", "not_found", "partial", <<>>, 6)}

Site(status, order) == Row("websites", "website", "username", status, "none", <<>>, order)
Corpus(status) == Row("pwned-passwords", "api", "password", status, "none", <<Item("pwned", 1)>>, 1)

Rows(mode) ==
    CASE mode = "websites" -> {<<>>, <<Site("found", 2), Site("blocked", 1)>>}
      [] mode = "password" -> {<<Corpus("found")>>, <<Corpus("error")>>}
      [] mode = "bitcoin" -> UNION {[1 .. n -> BitcoinRows] : n \in 0 .. 2}
      [] mode = "email" -> UNION {[1 .. n -> EmailRows] : n \in 0 .. 4}
      [] OTHER -> {<<>>}
MCSearchRows == [mode \in {"websites", "password"} \cup Lookups |-> Rows(mode)]

Named(dir, base, format) == [dir |-> dir, base |-> base, format |-> format]
MCOldFiles == {Named("output", <<"x">>, "json"), Named("output", <<"x", "report">>, "txt")}
MCProse == Item("prose", 0)

=============================================================================
