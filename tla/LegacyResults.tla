---------------------------- MODULE LegacyResults ----------------------------
(***************************************************************************)
(* The list of hosts of the classic interface: what of a host is shown and  *)
(* highlighted under a filter (add_param_objects and create_wanted_scripts  *)
(* of params.js, IvreResultListCtrl and set_display_mode of controllers.js) *)
(* and the words that the links of its card write (ivre.js), against what   *)
(* the server selects hosts by (flt_from_query of ivre/web/utils.py).       *)
(*                                                                          *)
(* The page knows the scripts behind a word from a table of its own.  What  *)
(* a script must have said is one fact of the script: whether it answers.   *)
(* An address is the parts that its separators cut it into; a part of an    *)
(* IPv6 address is empty on either side of a gap.  A link to a network of   *)
(* the address writes the network alone, in which the server recognizes it; *)
(* the text stands for a word here, however the page cuts it at its first   *)
(* colon.  Hosts are those of the newest query, whatever the order of the   *)
(* answers (LegacyFilter).                                                  *)
(***************************************************************************)
EXTENDS Naturals, FiniteSets, SequencesExt

CONSTANTS Typed,     \* the words that are typed
          Menu,      \* the entries of the menus that choose a display
          Hosts,     \* the hosts of the view
          MaxWords,  \* bound: the words of the filter when the user adds to it
          None

ResultsAssumption == MaxWords \in Nat

VARIABLES
  words,    \* parametersobj
  clicked,  \* history: the host whose link was clicked last, and how, or None
  picked    \* history: the last entry of a menu that was picked, or None

vars == <<words, clicked, picked>>

Word(neg, type, value) == [neg |-> neg, type |-> type, value |-> value]

-----------------------------------------------------------------------------
(* What the server selects.                                                 *)

\* The scripts that list files.
Ls == {"afp-ls", "ftp-anon", "http-ls", "nfs-ls", "smb-ls"}

\* The scripts one of which has the answer, for the words that are about scripts.
ServerScripts(w) ==
  CASE w.type = "script" -> {w.value}
    [] w.type = "anonftp" -> {"ftp-anon"}
    [] w.type = "authbypassvnc" -> {"realvnc-auth-bypass"}
    [] w.type = "authhttp" -> {"http-default-accounts"}
    [] w.type = "banner" -> {"banner"}
    [] w.type \in {"cookie", "phpmyadmin"} -> {"http-headers"}
    [] w.type \in {"file", "webfiles"} -> Ls
    [] w.type \in {"nfs", "nis", "yp"} -> {"rpcinfo"}
    [] w.type = "mssqlemptypwd" -> {"ms-sql-empty-password"}
    [] w.type = "mysqlemptypwd" -> {"mysql-empty-password"}
    [] w.type = "sshkey" -> {"ssh-hostkey"}
    [] w.type = "owa" -> {"http-headers", "http-auth-finder", "http-title", "html-title"}
    [] w.type \in {"smb.os", "smb.domain_dns", "xp445"} -> {"smb-os-discovery"}
    [] w.type \in {"ntlm.os", "ntlm.fqdn"} -> {"ntlm-info"}
    [] w.type = "smbshare" -> {"smb-enum-shares"}
    [] w.type = "x11open" -> {"x11-access"}
    [] OTHER -> {}
\* The words that a script satisfies whatever it said.
Ran(w) ==
  w.type \in {"script", "authbypassvnc"} \/ (w.type = "sshkey" /\ w.value = None)
FoundBy(w, h) ==
  {s.id : s \in {t \in h.scripts : t.id \in ServerScripts(w) /\ (t.answers \/ Ran(w))}}

\* Eight groups, with zeros in the gap.
Expanded(parts) ==
  LET gap == {i \in DOMAIN parts : parts[i] = ""}
      before == SelectInSeq(parts, LAMBDA p : p = "") - 1
      after == SubSeq(parts, SelectLastInSeq(parts, LAMBDA p : p = "") + 1, Len(parts)) IN
    IF gap = {} THEN parts
    ELSE SubSeq(parts, 1, before) \o [i \in 1 .. 8 - before - Len(after) |-> "0"] \o after
Numbers(a) == IF a.v6 THEN Expanded(a.parts) ELSE a.parts
InNet(a, net) ==
  a.v6 = net.v6 /\ SubSeq(Numbers(a), 1, net.len) = SubSeq(Numbers(net), 1, net.len)

IsOpen(h, name) == [name |-> name, state |-> "open"] \in h.ports
Facts == {"category", "country", "city", "asnum", "source", "tag"}

\* Whether a word without its sign selects a host.
Found(w, h) ==
  CASE w.type = "net" -> InNet(h.addr, w.value)
    [] w.type = "hostname" -> w.value \in h.names
    [] w.type = "domain" -> \E name \in h.names : IsSuffix(w.value, name)
    [] w.type \in Facts -> <<w.type, w.value>> \in h.facts
    [] w.type = "hop" -> ~w.value.v6 /\ w.value \in h.hops
    [] w.type = "cpe" -> \E cpe \in h.cpes : IsPrefix(w.value, cpe)
    [] w.type = "port" -> IsOpen(h, w.value)
    [] w.type \in {"open", "closed", "filtered"} ->
         \A name \in w.value : [name |-> name, state |-> w.type] \in h.ports
    [] w.type = "xp445" -> FoundBy(w, h) # {} /\ IsOpen(h, "tcp/445")
    [] w.type = "display" -> ~w.neg
    [] OTHER -> FoundBy(w, h) # {}
Selected == {h \in Hosts : \A w \in words : Found(w, h) = ~w.neg}

-----------------------------------------------------------------------------
(* What the page highlights.                                                *)

\* The aliases: the scripts of a word.  These four have none without a value.
Scripts(w) ==
  CASE w.type \in {"banner", "sshkey", "file", "cookie"} /\ w.value = None -> {}
    [] w.type = "script" -> {w.value}
    [] w.type = "banner" -> {"banner"}
    [] w.type = "sshkey" -> {"ssh-hostkey"}
    [] w.type \in {"file", "webfiles"} -> Ls
    [] w.type \in {"cookie", "phpmyadmin"} -> {"http-headers"}
    [] w.type = "smbshare" -> {"smb-enum-shares"}
    [] w.type \in {"smb.os", "smb.domain_dns", "xp445"} -> {"smb-os-discovery"}
    [] w.type \in {"ntlm.os", "ntlm.fqdn"} -> {"ntlm-info"}
    [] w.type \in {"nfs", "nis", "yp"} -> {"rpcinfo"}
    [] w.type = "anonftp" -> {"ftp-anon"}
    [] w.type = "authhttp" -> {"http-auth", "http-default-accounts"}
    [] w.type = "authbypassvnc" -> {"realvnc-auth-bypass"}
    [] w.type = "mssqlemptypwd" -> {"ms-sql-empty-password"}
    [] w.type = "mysqlemptypwd" -> {"mysql-empty-password"}
    [] w.type = "x11open" -> {"x11-access"}
    [] w.type = "owa" -> {"http-headers", "http-auth-finder", "http-title"}
    [] OTHER -> {}
\* A port, and the ports of a list whatever their state, are filed as open.
OpenPorts(w) ==
  CASE w.type = "port" -> {w.value}
    [] w.type \in {"open", "closed", "filtered"} -> w.value
    [] OTHER -> {}

Asked == {w \in words : ~w.neg}
wanted_scripts == UNION {Scripts(w) : w \in Asked}
wanted_hops == {w.value : w \in {x \in Asked : x.type = "hop"}}
wanted_port(port) == port.state = "open" /\ port.name \in UNION {OpenPorts(w) : w \in Asked}

-----------------------------------------------------------------------------
(* What the page shows.                                                     *)

\* ls stands for the scripts that list files.
Args(list) == UNION {IF arg = "ls" THEN Ls ELSE {arg} : arg \in list}
display_mode ==
  LET chosen == {w \in Asked : w.type = "display"} IN
    IF chosen = {} THEN [kind |-> "host", args |-> {}]
    ELSE LET mode == (CHOOSE w \in chosen : TRUE).value IN
           [mode EXCEPT !.args = CASE mode.kind = "script" -> Args(@)
                                   [] mode.kind \in {"port", "service"} -> @
                                   [] OTHER -> {}]
ScriptsShown(h) ==
  CASE display_mode.kind = "host" -> {s.id : s \in h.scripts}
    [] display_mode.kind = "script" ->
         {s.id : s \in h.scripts} \cap
           (IF display_mode.args = {} THEN {s.id : s \in h.scripts} ELSE display_mode.args)
    [] OTHER -> {}

-----------------------------------------------------------------------------
(* The links of a card: the words that each writes, and whether what it     *)
(* writes is of another kind than what it shows.                            *)

Link(new, astray) == [words |-> new, astray |-> astray]
Plain(type, value) == Link({Word(FALSE, type, value)}, FALSE)
Net(v6, parts, len) == [v6 |-> v6, parts |-> parts, len |-> len]

addr_links_ipv4(parts) ==
  {Plain("net", Net(FALSE, [j \in 1 .. 4 |-> IF j <= i THEN parts[j] ELSE "0"], i)) : i \in 1 .. 4}
\* A part after the gap counts from the end.  The gap itself writes an empty word, which is
\* not in the text; and a network after the gap that is not the address is of other groups.
addr_links_ipv6(parts) ==
  LET Ended(i) == \E j \in 1 .. i - 1 : parts[j] = ""
      Place(i) == IF Ended(i) THEN 8 - Len(parts) + i ELSE i
      Text(i) == SubSeq(parts, 1, i) \o (IF Ended(i) \/ Place(i) = 8 THEN <<>> ELSE <<"", "">>)
      At(i) == IF parts[i] = "" THEN Link({}, FALSE)
               ELSE Link({Word(FALSE, "net", Net(TRUE, Text(i), Place(i)))},
                         Ended(i) /\ Place(i) # 8) IN
    {At(i) : i \in DOMAIN parts}
addr_links(h) ==
  IF h.addr.v6 THEN addr_links_ipv6(h.addr.parts) ELSE addr_links_ipv4(h.addr.parts)

hostnames_links(h) ==
  {Plain("hostname", name) : name \in h.names}
    \cup UNION {{Plain("domain", SubSeq(name, i, Len(name))) : i \in 2 .. Len(name)} : name \in h.names}

\* The tree of the CPEs, and the words of a node: its path up to what has no name.
set_cpe_param(cpe, level) ==
  LET named == {i \in 1 .. level : \A j \in 1 .. i : cpe[j] # None} IN
    Plain("cpe", SubSeq(cpe, 1, Cardinality(named)))
get_reshaped_cpes(h) == {set_cpe_param(cpe, level) : cpe \in h.cpes, level \in 1 .. 4}

\* The ports by state; each writes its name, which selects open ports.
port_summary(h) ==
  {Link({Word(FALSE, "port", port.name)}, port.state # "open") : port \in h.ports}

\* A city comes with its country.
FactLinks(h) ==
  {IF f[1] = "city"
     THEN Link({Word(FALSE, g[1], g[2]) : g \in {x \in h.facts : x[1] \in {"country", "city"}}}, FALSE)
     ELSE Plain(f[1], f[2]) : f \in h.facts}
HopLinks(h) == {Link({Word(FALSE, "hop", hop)}, hop.v6) : hop \in h.hops}

Links(h) ==
  addr_links(h) \cup hostnames_links(h) \cup get_reshaped_cpes(h) \cup port_summary(h)
    \cup FactLinks(h) \cup HopLinks(h)

-----------------------------------------------------------------------------

Init == words = {} /\ clicked = None /\ picked = None

TypeWord ==
  /\ Cardinality(words) < MaxWords
  /\ \E w \in Typed :
       /\ w.type = "display" => \A x \in words : x.type # "display"
       /\ words' = words \cup {w}
       /\ picked' = IF w.type = "display" THEN None ELSE picked
  /\ clicked' = None

\* The word and the display replace those of their type.
PickMenu ==
  \E entry \in Menu :
    LET kept == {w \in words : w.type \notin {entry.word.type, "display"}} IN
      /\ Cardinality(kept) + 2 <= MaxWords
      /\ words' = kept \cup {entry.word, Word(FALSE, "display", entry.display)}
      /\ picked' = entry /\ clicked' = None

ClickLink ==
  /\ Cardinality(words) < MaxWords
  /\ \E h \in Selected : \E link \in Links(h) :
       /\ words' = words \cup link.words
       /\ clicked' = [host |-> h, astray |-> link.astray]
  /\ UNCHANGED picked

unsetparam ==
  /\ \E w \in words :
       /\ words' = {x \in words : x.type # w.type}
       /\ picked' = IF picked # None /\ w.type \in {picked.word.type, "display"}
                    THEN None ELSE picked
  /\ clicked' = None

Next == TypeWord \/ PickMenu \/ ClickLink \/ unsetparam
Spec == Init /\ [][Next]_vars

-----------------------------------------------------------------------------
(* Properties.                                                              *)

\* The kinds of the state.
TypeOK ==
  /\ \A w \in words : w.neg \in BOOLEAN /\ w.type \in STRING
  /\ clicked # None => clicked.host \in Hosts /\ clicked.astray \in BOOLEAN
  /\ picked # None => picked \in Menu

\* What a host was found by is highlighted: a script the server looks into, for the words
\* whose scripts the page knows (but html-title), the open ports and the hops.
FoundIsHighlighted ==
  \A h \in Selected, w \in Asked :
    LET found == FoundBy(w, h) \ {"html-title"} IN
      /\ Scripts(w) # {} /\ found # {} => found \cap wanted_scripts # {}
      /\ w.type \in {"port", "open"} =>
           \A port \in h.ports : port.name \in OpenPorts(w) => wanted_port(port)
      /\ w.type = "hop" => h.hops \cap wanted_hops # {}

\* The display that a menu chooses with its word shows, on each host, a script by which
\* the word found it, as long as both are in the filter.
MenuShowsWhatIsFound ==
  picked # None =>
    \A h \in Selected : FoundBy(picked.word, h) \cap ScriptsShown(h) # {}

\* The host whose card has the link is still in the list once it is clicked, but for the
\* links that go astray: ports that are not open, networks past the gap of an IPv6
\* address, IPv6 hops.
LinksKeepTheHost == clicked # None /\ ~clicked.astray => clicked.host \in Selected
=============================================================================
