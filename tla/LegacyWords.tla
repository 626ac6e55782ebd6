----------------------------- MODULE LegacyWords -----------------------------
(***************************************************************************)
(* The text of a filter in the classic interface: how params.js cuts it     *)
(* into words (parse_params), shows them in the boxes of the filter         *)
(* (filters.html, on_param_update of filters.js), and writes them again     *)
(* when a word is clicked (setparam, params2query, protect of utils.js).    *)
(* The server cuts the same text on its own (FilterWords).                  *)
(*                                                                          *)
(* As in FilterWords, a text is a sequence of pieces: the characters that   *)
(* mean something, and runs of those that do not.  The words of paging are  *)
(* those of LegacyFilter, and the store of parameters, lists by type in the *)
(* code, is the set of the words.                                           *)
(***************************************************************************)
EXTENDS Naturals, FiniteSets, SequencesExt

CONSTANTS Keyboard,    \* the pieces that are typed
          Clicks,      \* the words that menus, charts and results write
          MaxLink,     \* bound: the pieces of the text of an address
          MaxTyped,    \* bound: the pieces typed in a box
          MaxMoves,    \* bound: the moves of the user once the page is loaded
          None         \* no value, no quote, no word that is clicked

LegacyWordsAssumption == MaxLink \in Nat /\ MaxTyped \in Nat /\ MaxMoves \in Nat

VARIABLES
  query,   \* filter.query
  boxes,   \* parametersprotected: the words as they were written
  store,   \* parametersobj
  meant,   \* history: the words a click meant to leave, or None
  moves

vars == <<query, boxes, store, meant, moves>>

Space == " "
Colon == ":"
Double == "\""
Single == "'"
Signs == {"-", "!"}

Word(neg, type, value) == [neg |-> neg, type |-> type, value |-> value]
Texts(n) == UNION {[1 .. m -> Keyboard] : m \in 0 .. n}

-----------------------------------------------------------------------------
(* Reading.                                                                 *)

\* One character: out of a word, in one, or between quotes.  What is in the word
\* and what was written of it grow apart, by the quotes.
Out == [in |-> FALSE, quote |-> None, token |-> <<>>, raw |-> <<>>, done |-> <<>>]
Closed(s) == Append(s.done, [token |-> s.token, raw |-> s.raw])
Step(s, c) ==
  LET Wrote == [s EXCEPT !.in = TRUE, !.raw = Append(@, c)]
      Grew == [Wrote EXCEPT !.token = Append(@, c)] IN
    CASE s.quote = c -> [Wrote EXCEPT !.quote = None]
      [] s.quote \notin {c, None} -> Grew
      [] s.quote = None /\ c \in {Double, Single} -> [Wrote EXCEPT !.quote = c]
      [] s.quote = None /\ c = Space -> IF s.in THEN [Out EXCEPT !.done = Closed(s)] ELSE s
      [] OTHER -> Grew
Read(text) == FoldLeft(Step, Out, text)

\* The words of a text; a quote that is left open goes to its end.  What is empty
\* without its quotes is dropped.
parse_params(text) ==
  LET end == Read(text) IN
    SelectSeq(IF end.in THEN Closed(end) ELSE end.done, LAMBDA w : w.token # <<>>)

\* A sign, then a type up to the first colon; a sign alone says nothing.
add_param_objects(words) ==
  LET Typed(neg, p) ==
        IF Colon \notin Range(p) THEN Word(neg, p, None)
        ELSE LET i == SelectInSeq(p, LAMBDA c : c = Colon) IN
               Word(neg, SubSeq(p, 1, i - 1), SubSeq(p, i + 1, Len(p)))
      Signed(p) == Head(p) \in Signs
      said == {words[i].token : i \in DOMAIN words} IN
    {Typed(Signed(p), IF Signed(p) THEN Tail(p) ELSE p) : p \in {t \in said : Tail(t) # <<>> \/ ~Signed(t)}}

-----------------------------------------------------------------------------
(* Writing.                                                                 *)

\* Double quotes, or single ones; between its double quotes when it has both.
protect(value) ==
  LET Quoted(c, part) == <<c>> \o part \o <<c>>
      has == Range(value)
      marks == {i \in DOMAIN value : value[i] = Double}
      ends == SetToSortSeq(marks \cup {0, Len(value) + 1}, <)
      parts == [i \in 1 .. Len(ends) - 1 |-> SubSeq(value, ends[i] + 1, ends[i + 1] - 1)]
      Part(p) == IF p = <<>> THEN <<>> ELSE Quoted(Double, p) IN
    CASE {Space, Double, Single} \cap has = {} -> value
      [] has \cap {Space, Single} # {} /\ Double \notin has -> Quoted(Double, value)
      [] Double \in has /\ Single \notin has -> Quoted(Single, value)
      [] OTHER -> FlattenSeq([i \in DOMAIN parts |->
                    (IF i = 1 THEN <<>> ELSE Quoted(Single, <<Double>>)) \o Part(parts[i])])

Joined(texts) ==
  FlattenSeq([i \in DOMAIN texts |-> (IF i = 1 THEN <<>> ELSE <<Space>>) \o texts[i]])
Written(w) ==
  (IF w.neg THEN <<"-">> ELSE <<>>) \o protect(w.type)
    \o (IF w.value = None THEN <<>> ELSE <<Colon>> \o protect(w.value))
params2query(words) ==
  LET list == SetToSeq(words) IN Joined([i \in DOMAIN list |-> Written(list[i])])

-----------------------------------------------------------------------------
(* The page.                                                                *)

load_params(text) ==
  LET words == parse_params(text) IN
    /\ query' = text
    /\ boxes' = [i \in DOMAIN words |-> words[i].raw]
    /\ store' = add_param_objects(words)

Init ==
  /\ query \in Texts(MaxLink)
  /\ boxes = [i \in DOMAIN parse_params(query) |-> parse_params(query)[i].raw]
  /\ store = add_param_objects(parse_params(query))
  /\ meant = None /\ moves = 0

Move == moves < MaxMoves /\ moves' = moves + 1

\* A box is edited, or the last one is filled, and the form is submitted.
on_param_update ==
  /\ Move /\ meant' = None
  /\ \E i \in 1 .. Len(boxes) + 1, text \in Texts(MaxTyped) :
       load_params(Joined(SelectSeq([j \in 1 .. Len(boxes) + 1 |->
                                       CASE j = i -> text [] j <= Len(boxes) -> boxes[j]
                                         [] OTHER -> <<>>],
                                    LAMBDA t : t # <<>>)))

setparam ==
  /\ Move
  /\ \E w \in Clicks, unique \in BOOLEAN :
       LET kept == IF unique THEN {x \in store : x.type # w.type} ELSE store IN
         /\ meant' = [words |-> kept \cup {w}]
         /\ load_params(params2query(kept \cup {w}))

unsetparam ==
  /\ Move
  /\ \E w \in store :
       LET kept == {x \in store : x.type # w.type} IN
         /\ meant' = [words |-> kept]
         /\ load_params(params2query(kept))

Next == on_param_update \/ setparam \/ unsetparam
Spec == Init /\ [][Next]_vars

-----------------------------------------------------------------------------
(* Properties.                                                              *)

\* What the server reads of the text, with the words of no type as this page has them.
Server == INSTANCE FilterWords WITH
            Rows <- {}, Links <- {}, Paginated <- FALSE, MaxDraft <- 0, MaxFilters <- 0,
            Null <- None, q <- query, filters <- boxes, draft <- <<>>, asked <- boxes
ServerWords ==
  LET read == Server!query_from_params(query)
      AsHere(f) == IF f.type = None THEN Word(f.neg, f.value, None) ELSE f IN
    {AsHere(read[i]) : i \in DOMAIN read} \ {Word(TRUE, <<>>, None)}
Balanced == Read(query).quote = None

\* The shapes of the state.
TypeOK ==
  /\ query \in Seq(STRING) /\ moves \in 0 .. MaxMoves
  /\ \A i \in DOMAIN boxes : boxes[i] # <<>>
  /\ \A w \in store : w.neg \in BOOLEAN /\ w.type \in Seq(STRING)

\* `the inverse of parse_params' tokenizer' (protect): a word that is clicked, with
\* whatever quotes and spaces, is in the filter with all the others, as they were.
WrittenIsRead == meant # None => store = meant.words

\* `an equivalent to the server-side tokenizer' (parse_params): the server finds in a text
\* whose quotes are closed the words the page has, and no other.
ServerReadsTheWords == Balanced => ServerWords = store

\* The form that is submitted without a change leaves the filter as it is.
BoxesAreTheFilter == add_param_objects(parse_params(Joined(boxes))) = store
=============================================================================
