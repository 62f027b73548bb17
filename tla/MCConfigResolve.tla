-------------------------- MODULE MCConfigResolve --------------------------
(* Two profiles with a context each; every variable and flag that selects  *)
(* one; the other settings come from each source or not, the secrets and   *)
(* --insecure apart from the rest. The values tell their source.           *)
EXTENDS ConfigResolve

Home(ref, verify) ==
    [Provider |-> None, Server |-> "home", Type |-> None, TokenID |-> "home",
     User |-> None, SecretRef |-> ref, Secret |-> "inline", Finger |-> None,
     Verify |-> verify, Output |-> "json"]

Corp ==
    [Provider |-> "pdm", Server |-> "corp", Type |-> "ticket", TokenID |-> None,
     User |-> "corp", SecretRef |-> "keyring", Secret |-> None, Finger |-> "corp",
     Verify |-> {TRUE}, Output |-> None]

MCFiles ==
    {[CurrentContext |-> current,
      Contexts |-> [home |-> [Profile |-> "home", Remote |-> None],
                    corp |-> [Profile |-> "corp", Remote |-> "dc-west"]],
      Profiles |-> [home |-> Home(ref, verify), corp |-> Corp]] :
        current \in {None, "corp"}, ref \in {None, "keyring", "env"},
        verify \in {{}, {FALSE}}}

From(source, set) == IF set THEN source ELSE None

MCEnvs ==
    {[CONTEXT |-> context, PROFILE |-> profile, SERVER |-> From("env", rest),
      TOKEN_ID |-> From("env", rest), USER |-> From("env", rest),
      TOKEN_SECRET |-> From("env-secret", secret),
      PASSWORD |-> From("env-password", password),
      TLS_FINGERPRINT |-> From("env", rest), OUTPUT |-> From("yaml", rest),
      INSECURE |-> insecure, NAMED |-> "named"] :
        context \in {None, "home", "typo"}, profile \in {None, "home", "gone"},
        rest, secret, password \in BOOLEAN, insecure \in Flag}

MCCommandLines ==
    {[Context |-> context, Profile |-> profile, Server |-> From("flag", rest),
      Provider |-> From("pve", rest), TokenID |-> From("flag", rest),
      Secret |-> From("flag", secret), Output |-> From("value", rest),
      Fingerprint |-> From("flag", rest), Insecure |-> insecure] :
        context \in {None, "home", "corp"}, profile \in {None, "corp"},
        rest, secret \in BOOLEAN, insecure \in Flag}

MCStrings == STRING
MCKeyrings == {Unreadable, Holds("stored")}
=============================================================================
