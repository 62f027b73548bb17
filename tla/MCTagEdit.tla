----------------------------- MODULE MCTagEdit -----------------------------
(* A rename and an import over two guests, and a removal on one, while     *)
(* other people edit the guests or put other guests in their place.        *)
EXTENDS TagEdit

CONSTANTS g1, g2, a, b

MCGuests == {g1, g2}
MCTags == {a, b}
MCNames == {"web", "db"}

Command(op, bulk, tags, having, selected) ==
    [op |-> op, bulk |-> bulk, tags |-> tags, having |-> having,
     selected |-> selected, name |-> "web", force |-> FALSE]

RenameAll == Command("rename", TRUE, {b}, {a}, MCGuests)
ImportAll == Command("import", TRUE, {a}, {}, MCGuests)
RemoveOne == Command("rm", FALSE, {b}, {}, {g1})

MCCommands == {RenameAll, ImportAll, RemoveOne}

MCScenarios == {{RenameAll}, {ImportAll}, {RemoveOne}}
=============================================================================
