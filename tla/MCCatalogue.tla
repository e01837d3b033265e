----------------------------- MODULE MCCatalogue -----------------------------
(* Every template of up to five characters with every choice of arguments, and resources   *)
(* with up to two parameters.                                                             *)
EXTENDS Catalogue

CONSTANT MaxLength   \* bound on the length of a template

MCChar == {"$", "{", "}", "a", "b", "k"}
Templates == UNION {[1..n -> MCChar \ {"k"}] : n \in 0..MaxLength}

Arg(name) == [name |-> name, type |-> "integer", default |-> NotGiven]
Declared ==
  {<<>>, <<Arg(<<"a">>)>>, <<Arg(<<"b">>)>>, <<Arg(<<"a", "b">>)>>,
   <<Arg(<<"a">>), Arg(<<"b">>)>>}

Prompt(arguments, template) ==
  [name |-> "p", arguments |-> arguments, template |-> template]
OnePrompt(p) == [prompts |-> <<p>>, resources |-> <<>>]

\* The templates whose validation depends on nothing but their text.
Prompts == {OnePrompt(Prompt(c, t)) : c \in Declared, t \in Templates}

\* Defaults, repeated and reserved names, and two prompts of one name.
A == Arg(<<"a">>)
OddPrompts ==
  {OnePrompt(Prompt(<<[A EXCEPT !.default = d]>>, <<"$", "a">>)) : d \in {"integer", "boolean"}}
  \cup {OnePrompt(Prompt(<<A, A>>, <<"$", "a">>)), OnePrompt(Prompt(<<Arg(<<"k">>)>>, <<"$", "k">>)),
        [prompts |-> <<Prompt(<<>>, <<"a">>), Prompt(<<A>>, <<"$", "a">>)>>, resources |-> <<>>]}

X == <<"{x}">>
Y == <<"{y}">>
Resource(path, parameters, type) ==
  [uri |-> path, uriParameters |-> parameters, path |-> path, mimeType |-> type]
Resources ==
  {[prompts |-> <<>>, resources |-> <<r>>] :
     r \in {Resource(<<<<"/">>, X, <<"/">>, Y>>, {X, Y}, "json"),
            Resource(<<<<"/">>, Y, <<"/">>, <<"s">>>>, {Y}, "text"),
            Resource(<<<<"/">>, X, <<"/">>, X>>, {X}, "json"),
            Resource(<<<<"/">>, <<"s">>>>, {}, "text"),
            Resource(<<<<"/">>, X>>, {Y}, "json")}}

MCFile == Prompts \cup OddPrompts \cup Resources
MCValue == {<<<<"s">>>>, <<X>>, <<Y>>, <<<<"s">>, <<"/">>, Y>>, <<>>}
MCPlaceholder == {X, Y}
MCSpecial == {X, Y, <<"/">>}
MCPiece == MCSpecial \cup {<<"%">> \o x : x \in MCSpecial} \cup {<<"s">>}
MCKeyword == {<<"k">>}
=============================================================================
