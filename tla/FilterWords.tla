---------------------------- MODULE FilterWords ----------------------------
(***************************************************************************)
(* The filter language of the web interface and what is done with it:       *)
(* filters are words of the `q' parameter of the address, read and written  *)
(* by lib/filter.ts; the filter bar and the rows of the facets change them  *)
(* (FilterBar.tsx, FacetGroup.tsx, lib/field-mapper.ts), and the server     *)
(* reads the same words (ivre/web/utils.py).                                *)
(*                                                                          *)
(* A text is a sequence of pieces: the characters that mean something to    *)
(* the language, and runs of characters that do not, which are one piece.   *)
(* Letters are compared without their case, and the addresses that contain  *)
(* colons, which the server does not split, are left out.                   *)
(***************************************************************************)
EXTENDS Naturals, FiniteSets, SequencesExt

CONSTANTS Keyboard,    \* the pieces the user types
          Rows,        \* the rows of the facets: field and label
          Links,       \* the queries of the addresses that are followed
          Paginated,   \* the section owns skip and limit (View)
          MaxDraft,    \* bound: the pieces of a draft
          MaxFilters,  \* bound: the filters of the bar
          None,        \* the type of an anonymous filter; no quote is open
          Null         \* a missing slot of a label

WordsAssumption ==
  MaxDraft \in Nat /\ MaxFilters \in Nat /\ Paginated \in BOOLEAN

VARIABLES
  q,      \* the query of the address
  filters,  \* the memo of what the query says
  draft,  \* what is typed in the bar
  asked   \* the list of filters that was last asked for

vars == <<q, filters, draft, asked>>

Space == " "
Colon == ":"
Double == "\""
Single == "'"
Negations == {"!", "-"}

Filter(neg, type, value) == [neg |-> neg, type |-> type, value |-> value]

-----------------------------------------------------------------------------
(* Writing filters.                                                         *)

\* Slip: a single quote is an ordinary character.
QuotedDoubleOnly(value) ==
  IF {Space, Colon, Double} \cap Range(value) = {} THEN value
  ELSE <<Double>> \o value \o <<Double>>
quoteValue(value) ==
  LET Quoted(c, part) == <<c>> \o part \o <<c>>
      Piece(c) == IF c = Double THEN Quoted(Single, <<c>>) ELSE Quoted(Double, <<c>>)
      has == Range(value) IN
    CASE {Space, Colon, Double, Single} \cap has = {} -> value
      [] Double \notin has -> Quoted(Double, value)
      [] Double \in has /\ Single \notin has -> Quoted(Single, value)
      [] OTHER -> FlattenSeq([i \in DOMAIN value |-> Piece(value[i])])

renderFilter(f) ==
  (IF f.neg THEN <<"!">> ELSE <<>>)
    \o (IF f.type = None THEN <<>> ELSE f.type \o <<Colon>>) \o quoteValue(f.value)

buildQueryFromFilters(list) ==
  FlattenSeq([i \in DOMAIN list |->
                (IF i = 1 THEN <<>> ELSE <<Space>>) \o renderFilter(list[i])])

-----------------------------------------------------------------------------
(* Reading them.                                                            *)

\* A word is split at its first colon.
Typed(neg, word) ==
  IF Colon \notin Range(word) THEN Filter(neg, None, word)
  ELSE LET i == SelectInSeq(word, LAMBDA c : c = Colon) IN
         Filter(neg, SubSeq(word, 1, i - 1), SubSeq(word, i + 1, Len(word)))

\* One piece of the text: in a word or between two, in quotes or not.
Read(s, c) ==
  LET start == ~s.word /\ c # Space
      Grown == [s EXCEPT !.word = TRUE, !.token = Append(@, c)] IN
    CASE s.quote # None /\ c = s.quote -> [s EXCEPT !.quote = None]
      [] s.quote # None /\ c # s.quote -> Grown
      [] s.quote = None /\ c = Space ->
           [s EXCEPT !.word = FALSE, !.neg = FALSE, !.token = <<>>,
                     !.done = Append(@, [neg |-> s.neg, token |-> s.token])]
      [] s.quote = None /\ start /\ c \in Negations -> [s EXCEPT !.word = TRUE, !.neg = TRUE]
      [] s.quote = None /\ c \in {Double, Single} ->
           [s EXCEPT !.word = TRUE, !.quote = c]
      [] OTHER -> Grown
Between == [word |-> FALSE, neg |-> FALSE, quote |-> None, token |-> <<>>, done |-> <<>>]

\* What is empty once unquoted is dropped; a quote may be left open.
parseFiltersFromQuery(text) ==
  LET words == FoldLeft(Read, Between, Append(text, Space))
      all == IF words.quote = None THEN words.done
             ELSE Append(words.done, [neg |-> words.neg, token |-> Front(words.token)])
      kept == SelectSeq(all, LAMBDA w : w.token # <<>>) IN
    [i \in DOMAIN kept |-> Typed(kept[i].neg, kept[i].token)]

stripMetaFilters(list) ==
  IF Paginated THEN SelectSeq(list, LAMBDA f : f.type \notin {<<"skip">>, <<"limit">>})
  ELSE list

FiltersOf(text) == stripMetaFilters(parseFiltersFromQuery(text))

-----------------------------------------------------------------------------
(* The server: the words of a text (shlex without escapes), then what each  *)
(* says.  A quote that is left open is an error.                            *)

Split(s, c) ==
  CASE s.quote # None /\ c = s.quote -> [s EXCEPT !.quote = None]
    [] s.quote # None /\ c # s.quote -> [s EXCEPT !.token = Append(@, c)]
    [] s.quote = None /\ c = Space ->
         [s EXCEPT !.quoted = FALSE, !.token = <<>>,
                   !.done = IF s.token = <<>> /\ ~s.quoted THEN @ ELSE Append(@, s.token)]
    [] s.quote = None /\ c \in {Double, Single} -> [s EXCEPT !.quote = c, !.quoted = TRUE]
    [] OTHER -> [s EXCEPT !.token = Append(@, c)]
split_query(text) ==
  FoldLeft(Split, [quote |-> None, quoted |-> FALSE, token |-> <<>>, done |-> <<>>],
           Append(text, Space))
\* The negation is looked for in what was unquoted.
query_from_params(text) ==
  LET words == split_query(text).done
      Negated(w) == w = <<>> \/ Head(w) \in Negations IN
    [i \in DOMAIN words |->
       Typed(Negated(words[i]), IF Negated(words[i]) /\ words[i] # <<>> THEN Tail(words[i])
                                ELSE words[i])]

-----------------------------------------------------------------------------
(* The rows of the facets.                                                  *)

placeholder(slot) == IF slot \in {Null, <<"null">>, <<>>} THEN <<"(unknown)">> ELSE slot
asString(label) ==
  FlattenSeq([i \in DOMAIN label |->
                (IF i = 1 THEN <<>> ELSE <<Colon>>) \o placeholder(label[i])])
firstString(label) == placeholder(label[1])
\* `null' in a template, and what `??' makes of it.
Template(slot) == IF slot = Null THEN <<"null">> ELSE slot
OrEmpty(slot) == IF slot = Null THEN <<>> ELSE slot

\* The type of the filter of a field, and its value.
SIMPLE_FILTERS ==
  [f \in {"as", "aut-num"} |-> "asnum"] @@ ("as-name" :> "asname")
    @@ ("source_file" :> "sourcefile") @@ ("vulns" :> "vuln")
    @@ ("domains" :> "domain") @@ ("hostnames" :> "hostname")
    @@ [f \in {"country", "asnum", "asname", "source", "sensor", "category", "domain",
               "hostname", "service", "product", "version", "recontype", "type",
               "dataset", "name", "target", "city", "cpe", "sshkey", "tag"} |-> f]
SPECIAL_MAPPERS(field, label) ==
  LET pair == Len(label) >= 2 IN
    CASE field = "city" /\ pair -> Template(label[1]) \o <<"/">> \o Template(label[2])
      [] field = "port:open" /\ pair -> Template(label[1]) \o <<"/">> \o Template(label[2])
      [] field \in {"product", "version"} /\ pair -> OrEmpty(Last(label))
      [] field = "sshkey" /\ pair -> Template(label[2])
      [] field = "tag" /\ pair -> Template(label[1]) \o <<Colon>> \o Template(label[2])
      [] field = "source" /\ pair -> asString(SubSeq(label, 1, 2))
      [] field \in {"cpe", "domains", "hostnames", "port:open", "city", "tag", "product",
                    "version", "sshkey"} /\ ~pair -> asString(label)
      [] field \notin DOMAIN SIMPLE_FILTERS -> asString(label)
      [] OTHER -> firstString(label)
createFilter(row) ==
  Filter(FALSE, IF row.field \in DOMAIN SIMPLE_FILTERS THEN <<SIMPLE_FILTERS[row.field]>>
                ELSE None,
         SPECIAL_MAPPERS(row.field, row.label))

\* The values that are highlighted, by the type of their filter.
HIGHLIGHT_TYPES ==
  {"country", "city", "asnum", "asname", "as", "source", "sensor", "host", "domain",
   "hostname", "category", "tag", "type", "dataset", "name", "target", "service",
   "product", "version", "port", "recontype"}
buildHighlightMap(list) ==
  LET Port(f) == f.type = None /\ Len(f.value) = 3 /\ f.value[2] = "/"
      Key(f) == IF Port(f) THEN <<"port">> ELSE f.type IN
    {[type |-> Key(f), value |-> f.value] :
       f \in {g \in Range(list) : /\ ~g.neg
                                     /\ Key(g) \in {<<t>> : t \in HIGHLIGHT_TYPES}}}

highlightSetFor(field) ==
  CASE field = "as" -> "asnum" [] field = "port:open" -> "port"
    [] field = "domains" -> "domain" [] field = "hostnames" -> "hostname" [] OTHER -> field
Highlighted(row) ==
  LET filterValue == createFilter(row).value IN
    /\ filterValue # <<>>
    /\ [type |-> <<highlightSetFor(row.field)>>, value |-> filterValue]
         \in buildHighlightMap(filters)

-----------------------------------------------------------------------------

FILTER_TYPES ==
  <<"host", "net", "range", "hostname", "domain", "category", "tag", "country", "city",
    "asnum", "asname", "source", "sourcefile", "sensor", "type", "dataset", "name",
    "target", "timerange", "timeago", "service", "product", "version", "script", "port",
    "anonftp", "anonldap", "authbypassvnc", "authhttp", "banner", "cookie", "file",
    "geovision", "httptitle", "nfs", "nis", "yp", "mssqlemptypwd", "mysqlemptypwd",
    "httphdr", "httpapp", "owa", "phpmyadmin", "smb.dnsdomain", "smb.forest",
    "smb.lanmanager", "smb.os", "smb.workgroup">>

Trim(text) ==
  LET ends == {i \in DOMAIN text : text[i] # Space} IN
    IF ends = {} THEN <<>> ELSE SubSeq(text, Min(ends), Max(ends))
suggestions ==
  LET typed == Trim(draft) IN
    IF Len(typed) # 1 \/ Range(typed) \cap {Colon, Space} # {} THEN {}
    ELSE LET lower == typed[1]
             found == SelectSeq(FILTER_TYPES, LAMBDA t :
                        Len(lower) <= Len(t) /\ SubSeq(t, 1, Len(lower)) = lower) IN
           {found[i] : i \in DOMAIN found \cap 1..8}

Init ==
  /\ q \in Links
  /\ draft = <<>>
  /\ filters = FiltersOf(q)
  /\ asked = filters

setFilters(next) ==
  /\ q' = buildQueryFromFilters(next)
  /\ asked' = next
  /\ filters' = FiltersOf(q')

Type(c) ==
  /\ Len(draft) < MaxDraft
  /\ draft' = Append(draft, c)
  /\ UNCHANGED <<q, filters, asked>>
PickSuggestion(type) ==
  /\ type \in suggestions
  /\ draft' = <<type, Colon>>
  /\ UNCHANGED <<q, filters, asked>>

\* The Enter key.
Commit ==
  /\ Trim(draft) # <<>>
  /\ LET all == filters \o parseFiltersFromQuery(Trim(draft)) IN
       Len(all) <= MaxFilters /\ setFilters(all)
  /\ draft' = <<>>

removeAt(i) ==
  i \in DOMAIN filters /\ setFilters(RemoveAt(filters, i)) /\ UNCHANGED draft
ClearAll ==
  Len(filters) > 1 /\ setFilters(<<>>) /\ UNCHANGED draft

\* A click on a row of a facet.  The negation is not compared.
addFilter(f) ==
  /\ Len(filters) < MaxFilters
  /\ \A i \in DOMAIN filters : <<filters[i].type, filters[i].value>> # <<f.type, f.value>>
  /\ setFilters(Append(filters, f)) /\ UNCHANGED draft

Next ==
  \/ \E c \in Keyboard : Type(c)
  \/ \E t \in suggestions : PickSuggestion(t)
  \/ Commit \/ ClearAll
  \/ \E i \in DOMAIN filters : removeAt(i)
  \/ \E r \in Rows : addFilter(createFilter(r))

Spec == Init /\ [][Next]_vars

-----------------------------------------------------------------------------

\* A filter whose words cannot be mistaken: a type without separators, an
\* anonymous value that is not one of a type or of a negation.
Plain(f) ==
  IF f.type = None THEN /\ f.value # <<>> /\ Colon \notin Range(f.value)
                        /\ Head(f.value) \notin Negations
  ELSE /\ Range(f.type) \cap {Space, Double, Single} = {}
       /\ f.type # <<>> => Head(f.type) \notin Negations
AllPlain(list) == \A i \in DOMAIN list : Plain(list[i])

\* The shapes of the state; the words of paging are no filters of a section
\* that has a pager, whatever address was followed.
TypeOK ==
  /\ q \in Seq(STRING) /\ draft \in Seq(STRING)
  /\ Len(draft) <= MaxDraft \/ Len(draft) = 2
  /\ Len(asked) <= MaxFilters
  /\ Paginated => \A i \in DOMAIN filters : filters[i].type \notin {<<"skip">>, <<"limit">>}

\* filters whose words cannot be mistaken come back from the address as they
\* were asked for, whatever was added, removed or typed around them, quotes and
\* spaces of the values included.
PlainSurvive == AllPlain(asked) => filters = stripMetaFilters(asked)

\* The server reads of such filters what the bar shows; the draft has no part
\* in it, and it is enough to look when it is empty.
ServerReadsChips ==
  draft = <<>> /\ AllPlain(filters) => query_from_params(buildQueryFromFilters(filters)) = filters

\* A row whose filter is active is highlighted (FacetGroup.tsx:19), but for that of an
\* unknown product or version, whose filter has an empty value.
ActiveRowsShow ==
  \A r \in Rows :
    createFilter(r) \in Range(filters) /\ createFilter(r).value # <<>> => Highlighted(r)

\* A chip is removed without a change of the others: a step that leaves fewer
\* filters leaves none, or drops one.
RemovedAlone ==
  AllPlain(filters) /\ Len(filters') < Len(filters) =>
    filters' = <<>> \/ \E i \in DOMAIN filters : filters' = RemoveAt(filters, i)
=============================================================================
