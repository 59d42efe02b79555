----------------------------- MODULE MCStartup -----------------------------
(* Small instance of the life of the server process.                        *)
EXTENDS Startup

Line(key, value) == [key |-> key, value |-> value]

Environments ==
  {<<>>,
   <<Line("SPS_LOGIN_EMAIL", "good"), Line("PATH", "other")>>,
   <<Line("SMTP_PORT", "bad"), Line("SMTP_PORT", "good"), Line("SPS_LOGIN_EMAIL", "empty")>>}

DotEnvs ==
  {File(<<Line(NoKey, "other"), Line("SPS_LOGIN_EMAIL", "other")>>),
   File(<<Line("SPS_LOGIN_EMAIL", "bad"), Line("SPS_LOGIN_EMAIL", "good"), Line("PATH", "good")>>),
   File(<<Line("SMTP_PORT", "bad")>>)}

\* One of the two files may be missing, unreadable, or contain a typo.
MCSources ==
  LET odd == {Unreadable, File(<<>>), File(<<Line("SPS_BIN", "good")>>)}
  IN  [env : Environments, dot : DotEnvs, parent : odd \union {File(<<Line("SMTP_PORT", "bad")>>)}]
        \union [env : Environments, dot : odd, parent : DotEnvs]

\* One that loads and one that does not.
MCUsual == [env : {<<>>}, dot : {File(<<>>)}, parent : {d \in DotEnvs : Len(d.lines) < 3}]
=============================================================================
