--------------------------- MODULE MCConfigStore ---------------------------
(* Alone, a command meets every combination of MCConfigResolve. Together,  *)
(* two writers meet a command that connects: logins into profiles that     *)
(* exist, with a password and with nothing typed, and into a new one,      *)
(* edits of good and of ill-typed values, and readers. A write breaks off  *)
(* before the profiles, within the contexts or a reference, after a        *)
(* reference, or before the first value of a profile; or the end of        *)
(* another text gives a profile what it lacks, or a name the profile of    *)
(* another.                                                                *)
EXTENDS MCConfigResolve, ConfigStore, TLC

CONSTANTS w1, w2

MCWriters == {w1, w2}
Swap == Permutations(MCWriters)
MCNames == {"home", "corp", "default"}

AsToken == [Unwritten EXCEPT !.Provider = "pve", !.Server = "new", !.Type = "token",
                             !.TokenID = "new"]
AsUser == [Unwritten EXCEPT !.Provider = "pdm", !.Server = "other", !.Type = "ticket",
                            !.User = "root", !.Verify = {FALSE}]

MCJobs ==
    {[does |-> "login", name |-> "home", as |-> AsToken, typed |-> None],
     [does |-> "login", name |-> "default", as |-> AsToken, typed |-> "typed"],
     [does |-> "login", name |-> "corp", as |-> AsUser, typed |-> "password"]}
    \cup
    {[does |-> "use", name |-> None, key |-> "current_context", value |-> v] :
        v \in {"home", "gone"}}
    \cup
    {[does |-> "set", name |-> kv[1], key |-> kv[2], value |-> kv[3]] :
        kv \in {<<"home", "server", "moved">>, <<"home", "secret", "007">>,
                <<"corp", "verify", "maybe">>, <<"corp", "verify", "false">>}}
    \cup {[does |-> "init", name |-> None, force |-> b] : b \in BOOLEAN}
    \cup {[does |-> d, name |-> "home"] : d \in {"view", "get"}}

\* In the order of the fields of Profile, and in that of their names.
InOrder == <<"Provider", "Server", "Type", "TokenID", "User", "SecretRef", "Secret",
             "Finger", "Verify", "Output">>
ByName == <<"Secret", "SecretRef", "TokenID", "Type", "User", "Output", "Provider",
            "Server", "Finger", "Verify">>

First(order, k) == {order[i] : i \in 1..k}

Only(new) == [new |-> new, old |-> {}]

Cutting ==
    [current |-> "new", contexts |-> Only(MCNames), profiles |-> Only({}), seam |-> None,
     values |-> {}, cut |-> None, rest |-> None, bad |-> {}]

MCBreaks ==
    {Cutting,
     [Cutting EXCEPT !.current = "cut", !.contexts = Only({"corp"})],
     [Cutting EXCEPT !.bad = {"corp"}],
     [Cutting EXCEPT !.profiles = Only({"corp", "default"}), !.seam = "home",
                     !.values = First(InOrder, 5), !.cut = "SecretRef"],
     [Cutting EXCEPT !.profiles = Only({"corp"}), !.seam = "default",
                     !.values = First(ByName, 2), !.cut = "TokenID"],
     [Cutting EXCEPT !.profiles = [new |-> {"corp", "default"}, old |-> {"home"}],
                     !.seam = "default", !.values = First(InOrder, 7), !.rest = "corp"],
     [Cutting EXCEPT !.profiles = Only({"default"}), !.seam = "corp", !.rest = "home"]}

MCDisks ==
    {Absent} \cup
    {YAML(f, {}) : f \in {g \in MCFiles : /\ g.CurrentContext = "corp"
                                          /\ g.Profiles["home"] = Home("keyring", {})}}
=============================================================================
