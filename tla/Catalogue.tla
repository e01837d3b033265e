------------------------------- MODULE Catalogue -------------------------------
(***************************************************************************)
(* extensions/: the operator's catalogue of prompts and resources, from    *)
(* the file that load_extensions finds (loader.py), through its validation *)
(* (config.py), to the prompts that are rendered (prompts.py) and the      *)
(* upstream paths that are requested (resources.py).                       *)
(***************************************************************************)
EXTENDS Naturals, Sequences, SequencesExt

CONSTANTS
  Char,        \* what templates consist of
  Letter,      \* what names consist of
  Keyword,     \* the names that Python reserves
  File,        \* what may be in the file
  Missing,     \* no file
  Unreadable,  \* a file that is no JSON object, or fails the schema's other rules
  Piece,       \* what paths and values consist of
  Placeholder, \* the pieces of a path that are placeholders
  Special,     \* the pieces that quote() escapes
  Value,       \* what clients give a resource's parameters: sequences of pieces
  NoAnswer,
  NotGiven,
  MaxSwaps     \* bound on how often the file is replaced

\* Templates are sequences of characters. A resource's path is a sequence of pieces, each
\* of them a placeholder, the separator or text; text has no brace next to a placeholder.
ASSUME PieceAssumption ==
  /\ Placeholder \cup {<<"/">>} \subseteq Special /\ <<"/">> \notin Placeholder
  /\ Special \subseteq Piece /\ \A x \in Special : <<"%">> \o x \in Piece \ Special
  /\ \A v \in Value : v \in Seq(Piece)

NoChar == ""   \* past the end of a template

ASSUME LetterAssumption == Letter \cap {NoChar, "$", "{", "}"} = {}

ASSUME FileAssumption == \A f \in File :
  /\ \A i \in DOMAIN f.prompts : f.prompts[i].template \in Seq(Char)
  /\ \A i \in DOMAIN f.resources : f.resources[i].path \in Seq(Piece)

VARIABLES
  file,      \* what is at the catalogue's source
  swaps,     \* how often it was replaced
  required, client,   \* extensions.required, and whether the profile has a backend
  stage,     \* how far load_extensions is
  config,    \* the catalogue it loaded
  answer     \* what the last prompt or resource was answered with

vars == <<file, swaps, required, client, stage, config, answer>>

Init ==
  /\ file \in File \cup {Missing, Unreadable}
  /\ swaps = 0
  /\ required \in BOOLEAN /\ client \in BOOLEAN
  /\ stage = "start"
  /\ config = [prompts |-> <<>>, resources |-> <<>>]
  /\ answer = NoAnswer

-----------------------------------------------------------------------------
(* Placeholders in a template.                                             *)

At(t, i) == IF i \in DOMAIN t THEN t[i] ELSE NoChar

\* The end of the name that begins at i.
NameEnd(t, i) ==
  CHOOSE k \in i..(Len(t) + 1) :
    /\ At(t, k) \notin Letter
    /\ \A j \in i..(k - 1) : t[j] \in Letter

NoPlaceholder == [name |-> <<>>, next |-> 0]

\* "${name}" or "$name" at the "$" at i, and where the text goes on after it.
PlaceholderAt(t, i) ==
  LET braced == At(t, i + 1) = "{"
      begin == IF braced THEN i + 2 ELSE i + 1
      end == NameEnd(t, begin)
  IN  IF end = begin \/ (braced /\ At(t, end) # "}")
        THEN NoPlaceholder
        ELSE [name |-> SubSeq(t, begin, end - 1), next |-> IF braced THEN end + 1 ELSE end]

\* template.replace("$$", "").
WithoutEscapes(t) ==
  LET from[i \in 1..(Len(t) + 1)] ==
        IF i > Len(t) THEN <<>>
        ELSE IF t[i] = "$" /\ At(t, i + 1) = "$" THEN from[i + 2]
        ELSE <<t[i]>> \o from[i + 1]
  IN  from[1]

\* Fault: only the braced form counts.
ScannedBraced(t) ==
  LET s == WithoutEscapes(t)
  IN  {PlaceholderAt(s, i).name : i \in {k \in DOMAIN s : s[k] = "$" /\ At(s, k + 1) = "{"}}
        \ {<<>>}

\* What the validator takes for placeholders.
Scanned(t) ==
  LET s == WithoutEscapes(t)
  IN  {PlaceholderAt(s, i).name : i \in {k \in DOMAIN s : s[k] = "$"}} \ {<<>>}

\* What string.Template finds, and whether every "$" belongs to something; substitute
\* raises ValueError if not.
Parsed(t) ==
  LET from[i \in 1..(Len(t) + 1)] ==
        IF i > Len(t) THEN [names |-> {}, sound |-> TRUE]
        ELSE IF t[i] # "$" THEN from[i + 1]
        ELSE IF At(t, i + 1) = "$" THEN from[i + 2]
        ELSE LET p == PlaceholderAt(t, i)
             IN  IF p = NoPlaceholder THEN [from[i + 1] EXCEPT !.sound = FALSE]
                                      ELSE [from[p.next] EXCEPT !.names = @ \cup {p.name}]
  IN  from[1]

-----------------------------------------------------------------------------
(* Validation: load_config.                                                *)

Names(p) == {p.arguments[i].name : i \in DOMAIN p.arguments}

\* _check_default_type and _placeholders_match_arguments: no bool passes for an integer,
\* no integer for a number.
ValidPrompt(p) ==
  /\ \A i \in DOMAIN p.arguments : p.arguments[i].default \in {NotGiven, p.arguments[i].type}
  /\ Names(p) = Scanned(p.template)

\* The resource's parameters are a set of placeholders in its URI and a sequence in its path.
PathParameters(r) == SelectSeq(r.path, LAMBDA piece : piece \in Placeholder)
Parameters(r) == {r.path[i] : i \in DOMAIN r.path} \cap Placeholder

ValidResource(r) == r.uriParameters = Parameters(r)

Distinct(seq, Id(_)) == \A i, k \in DOMAIN seq : Id(seq[i]) = Id(seq[k]) => i = k

ValidCatalogue(c) ==
  /\ \A i \in DOMAIN c.prompts : ValidPrompt(c.prompts[i])
  /\ \A i \in DOMAIN c.resources : ValidResource(c.resources[i])
  /\ Distinct(c.prompts, LAMBDA p : p.name) /\ Distinct(c.resources, LAMBDA r : r.uri)

-----------------------------------------------------------------------------
(* load_extensions.                                                        *)

\* The file's owner may replace or remove it at any time, between the two steps too.
Swap ==
  /\ swaps < MaxSwaps
  /\ swaps' = swaps + 1
  /\ file' \in {Missing, Unreadable}
  /\ UNCHANGED <<required, client, stage, config, answer>>

\* config_exists.
Find ==
  /\ stage = "start"
  /\ stage' = IF file # Missing THEN "found" ELSE IF required THEN "failed" ELSE "skipped"
  /\ UNCHANGED <<file, swaps, required, client, config, answer>>

\* load_config reads the file again. A catalogue that is gone by now raises, required or
\* not; one with resources needs the client.
Load ==
  /\ stage = "found"
  /\ IF /\ file \notin {Missing, Unreadable}
        /\ ValidCatalogue(file)
        /\ file.resources # <<>> => client
       THEN stage' = "loaded" /\ config' = file
       ELSE stage' = "failed" /\ UNCHANGED config
  /\ UNCHANGED <<file, swaps, required, client, answer>>

\* Entries whose parameters make no Python signature are logged and left out.
MakesSignature(names) == Distinct(names, LAMBDA n : n) /\ ToSet(names) \cap Keyword = {}

PromptRegistered(p) == MakesSignature([i \in DOMAIN p.arguments |-> p.arguments[i].name])

\* _build_prompt_function's runner: FastMCP supplies the defaults of what is not given.
Render(p) ==
  /\ stage = "loaded" /\ PromptRegistered(p)
  /\ answer' = [kind |-> "prompt", of |-> p,
                rendered |-> Parsed(p.template).sound /\ Parsed(p.template).names \subseteq Names(p)]
  /\ UNCHANGED <<file, swaps, required, client, stage, config>>

\* Fault: values go into the path as they are.
Unquoted(v) == v

\* quote(value, safe=""): what is special is no longer itself.
Quote(v) == [i \in DOMAIN v |-> IF v[i] \in Special THEN <<"%">> \o v[i] ELSE v[i]]

\* path.replace("{name}", value).
Replace(path, name, value) ==
  FlattenSeq([i \in DOMAIN path |-> IF path[i] = name THEN value ELSE <<path[i]>>])

\* The parameters are put in one after the other, in the order of the call.
Interpolated(path, order, values) ==
  LET after[n \in 0..Len(order)] ==
        IF n = 0 THEN path ELSE Replace(after[n - 1], order[n], Quote(values[order[n]]))
  IN  after[Len(order)]

\* _build_resource_function's runner. body: what upstream answers; JSON is expected unless
\* neither the answer nor the catalogue says so.
Read(r, values, body) ==
  /\ stage = "loaded" /\ MakesSignature(PathParameters(r))
  /\ \E order \in SetToSeqs(Parameters(r)) :
       answer' = [kind |-> "resource", of |-> r, values |-> values,
                  path |-> Interpolated(r.path, order, values),
                  result |-> CASE body = "json" -> "parsed"
                               [] body = "text" /\ r.mimeType # "json" -> "text"
                               [] OTHER -> "error"]
  /\ UNCHANGED <<file, swaps, required, client, stage, config>>

Next ==
  \/ Swap \/ Find \/ Load
  \/ \E i \in DOMAIN config.prompts : Render(config.prompts[i])
  \/ \E i \in DOMAIN config.resources, body \in {"json", "text", "error"} :
       \E values \in [Parameters(config.resources[i]) -> Value] :
         Read(config.resources[i], values, body)

Spec == Init /\ [][Next]_vars

-----------------------------------------------------------------------------
(* Properties.                                                             *)

\* An even number of "$" stands right before i, none among them.
EvenBefore(t, i) ==
  \E m \in 0..Len(t) :
    /\ i - 2 * m >= 1 /\ At(t, (i - 2 * m) - 1) # "$"
    /\ \A j \in (i - 2 * m)..(i - 1) : t[j] = "$"

\* The "$" at i is half of no escape.
Opens(t, i) == t[i] = "$" /\ At(t, i + 1) # "$" /\ EvenBefore(t, i)

\* A "$" that begins neither an escape nor a placeholder: `costs $ 5`.
Stray(t) == \E i \in DOMAIN t : Opens(t, i) /\ PlaceholderAt(t, i) = NoPlaceholder

\* A name whose end is nothing but escapes, and a letter behind them: `$a$$b`.
Joined(t) ==
  \E i \in DOMAIN t, m \in 1..Len(t) :
    LET end == NameEnd(t, i + 1)
    IN  /\ Opens(t, i) /\ At(t, i + 1) \in Letter
        /\ \A j \in end..(end + 2 * m - 1) : At(t, j) = "$"
        /\ At(t, end + 2 * m) \in Letter

Prompted == IF answer = NoAnswer THEN FALSE ELSE answer.kind = "prompt"

\* Wherever the dropped escapes join nothing, the validator's scan and string.Template read a
\* template alike: an accepted prompt is rendered, and with every argument it declares,
\* unless it has a stray "$", which is all that the validator lets through
\* (extensions/config.py:85-104, prompts.py:47-48).
PromptsRender ==
  Prompted /\ ~Joined(answer.of.template) =>
    /\ answer.rendered <=> ~Stray(answer.of.template)
    /\ answer.rendered => Parsed(answer.of.template).names = Names(answer.of)

Separators(path) == {i \in DOMAIN path : path[i] = <<"/">>}

\* In whatever order the parameters come, each value stands where its own placeholder was
\* and nowhere else, and adds no segment (extensions/resources.py:68-72).
ParametersStayApart ==
  answer # NoAnswer => (answer.kind = "resource" =>
    /\ Cardinality(Separators(answer.path)) = Cardinality(Separators(answer.of.path))
    /\ answer.path =
         FlattenSeq([i \in DOMAIN answer.of.path |->
           IF answer.of.path[i] \in DOMAIN answer.values
             THEN Quote(answer.values[answer.of.path[i]]) ELSE <<answer.of.path[i]>>]))
=============================================================================
