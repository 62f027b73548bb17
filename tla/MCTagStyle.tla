----------------------------- MODULE MCTagStyle -----------------------------
(* Two tags, one color and every shape of the option; two commands that    *)
(* meet, and the web interface, which sets or unsets an option.            *)
EXTENDS TagStyle

CONSTANTS a, b, red

MCTags == {a, b}
MCColors == {red}
MCShapes == {"full"}
MCOrderings == {"config"}

Color(op, tags) ==
    [op |-> op, tags |-> tags, color |-> red, shape |-> None,
     ordering |-> None, caseSensitive |-> {}]

SetColor == Color("color set", {a})
RemoveColors == Color("color rm", {a, b})
ClearColors == Color("color clear", {})
ClearStyle == Color("style clear", {})
SetCase == [Color("style set", {}) EXCEPT !.caseSensitive = {FALSE}, !.ordering = "config"]

MCCommands == {SetColor, RemoveColors, ClearColors, ClearStyle, SetCase}
MCScenarios == {{SetColor, RemoveColors}, {ClearColors, SetCase}, {ClearStyle, SetColor}}
MCOthers == {NoStyle, [NoStyle EXCEPT !.CaseSensitive = {FALSE}, !.ColorMap = [t \in {b} |-> red]]}
=============================================================================
