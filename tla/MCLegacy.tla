---------- MODULE MCLegacy ---------------------------------------------------
(***************************************************************************)
(* Pages of the former web interface, together: the words of a filter       *)
(* (LegacyWords), the cards of the hosts and their links (LegacyResults),   *)
(* the charts and the report (LegacyGraphs), the words that the help, the   *)
(* menus and the bars write (FilterHelp), and the page of the flows with    *)
(* its timeline (LegacyFlow).                                               *)
(*                                                                          *)
(* The scene that is chosen at the start says which page is loaded, and     *)
(* with what data.                                                          *)
(***************************************************************************)
EXTENDS Naturals, Sequences

CONSTANTS Absent, None, Null, All

VARIABLES scene,
          filters, count, counting, elements, content, title, shown, requests, same16, builds,
          moves, dirty, store, chart, clicked, query, boxes, meant, words, picked,
          ready, url, past, sent, found, dated, visible, hovered, playing, chains,
          plays, details, format

vars ==
  <<scene, filters, count, counting, elements, content, title, shown, requests, same16,
    builds, moves, dirty, store, chart, clicked, query, boxes, meant, words, picked,
    ready, url, past, sent, found, dated, visible, hovered, playing, chains, plays,
    details, format>>


\* LegacyGraphs: addresses of four bits, two filters of one network, one of several.
ViewsOfPage == <<{0, 2, 3}, {1, 4, 6, 13}, {}>>

\* FilterHelp: a few hosts that have an example of what the charts count.
Help == INSTANCE FilterHelp WITH Typing <- {}, Menus <- {}, Fields <- {}, Hosts <- {},
                                 get_notepad_pages <- FALSE, MaxWords <- 0
Port(name, port, state, svc, prod, ver) ==
  [name |-> name, port |-> port, state |-> state, svc |-> svc, prod |-> prod, ver |-> ver]
Http == Port("tcp/80", "80", "open", "http", "nginx", "2")
HttpAlone == Port("tcp/80", "80", "open", "http", Null, Null)
Https == Port("tcp/443", "443", "open", "http", "apache", "1")
Ssh == Port("tcp/22", "22", "filtered", Null, Null, Null)

Host(ports, facts) == [ports |-> ports, facts |-> facts]
Key(type, bits, fp) == <<"sshkey", <<type, bits, fp>>>>
FactsOfOne ==
  {<<"city", <<"FR", "Paris">>>>, <<"as", <<"1", "One">>>>, <<"source", <<"lab">>>>,
   <<"source", <<"home">>>>, <<"category", <<"c1">>>>, <<"hop", <<"a", "1">>>>,
   <<"hop", <<"b", "2">>>>, <<"tag", <<"CDN", "x">>>>, <<"tag", <<"Scanner", Null>>>>,
   <<"httphdr", <<"server", "nginx">>>>, <<"httpapp", <<"wiki", "1">>>>, Key("rsa", "2048", "f1"),
   <<"domain", <<"d1">>>>, <<"net", <<"n1">>>>, <<"script", <<"ls", "out">>>>}
FactsOfTwo ==
  {<<"city", <<"FR", Null>>>>, <<"as", <<"1", "One">>>>, <<"source", <<"lab">>>>,
   <<"hop", <<"a", "2">>>>, <<"tag", <<"CDN", "y">>>>, <<"vuln", <<"v1", "VULNERABLE">>>>,
   <<"httphdr", <<"server", "apache">>>>, <<"httphdr", <<"date", "nginx">>>>,
   <<"devtype", <<"webcam", "80">>>>, <<"devtype", <<"router", "22">>>>,
   <<"ike.vendor_ids", <<"x1", "IKE">>>>, <<"smb.os", <<"w">>>>, <<"cert.pkmd5", <<"m">>>>,
   <<"cpe", <<"a", "f5", "nginx", "2">>>>, <<"ssl-ja3-client", <<"j", "md5">>>>,
   <<"hassh", <<"k", "md5">>>>, <<"ssl-jarm", <<"l">>>>, <<"cert.md5", <<"m">>>>,
   <<"cert.pksha1", <<"m">>>>, <<"cert.pksha256", <<"m">>>>, <<"ike.notification", <<"n">>>>,
   Key("rsa", "1024", "f2"), Key("dsa", "2048", "f3")}
HostsOfBars ==
  {Host({Http, Ssh}, FactsOfOne), Host({Https, HttpAlone}, FactsOfTwo),
   Host({}, {<<"city", <<"FR", "Nice">>>>, <<"source", <<"home">>>>,
             <<"vuln", <<"v1", "LIKELY">>>>})}
\* Two halves of the fields: those of the host and of its ports, and the others.
FieldsOfPorts ==
  Help!Alone({"as", "asnum", "country", "city", "source", "category", "domains", "vulns.id",
              "devicetype", "port", "service", "product", "version", "hop", "screenwords"})
    \cup Help!With("portlist", {"open", "closed"})
    \cup Help!With("countports", {"open", "filtered"}) \cup Help!With("port", {"open", "filtered"})
    \cup Help!With("product", {"80", "http"}) \cup Help!With("vulns", {"state"})
    \cup Help!With("service", {"80"}) \cup Help!With("devicetype", {"80"})
FieldsOfScripts ==
  Help!Alone({"net", "script", "cert.md5", "cert.pubkey.md5", "cert.pubkey.sha1",
              "cert.pubkey.sha256", "smb.os", "sshkey.type", "sshkey.bits",
              "sshkey.fingerprint", "ike.vendor_ids", "ike.notification", "tag", "httphdr",
              "httpapp", "jarm"})
    \cup Help!With("tag", {"CDN"}) \cup Help!With("tag.", {"value", "info"})
    \cup Help!With("httphdr.", {"name", "value"}) \cup Help!With("httphdr", {"server"})
    \cup Help!With("httpapp", {"wiki"}) \cup Help!With("cpe", {"vendor", "version"})
    \cup Help!With("ja3-client", {"md5"}) \cup Help!With("hassh", {"md5"})
    \cup Help!With("script", {"ls"}) \cup Help!With("ike.vendor_ids", {"name"})
\* Every field that the help of the charts describes, but hop:1 whose bars write the TTL
\* nowhere, over two hosts with more of the facts the charts count.
FieldsOfHelp == Help!HELP_TOPVALUES \ Help!With("hop", {"1"})
FactsOfThree ==
  {<<"smb.guid", <<"g">>>>, <<"smb.lanmanager", <<"l">>>>, <<"smb.smb-version", <<"3">>>>,
   <<"hassh-client", <<"k", "sha1">>>>, <<"hassh-server", <<"k", "md5">>>>,
   <<"cert.sha1", <<"m">>>>, <<"cert.sha256", <<"m">>>>, <<"vuln", <<"v2", "LIKELY">>>>, <<"vuln", <<"v1", "LIKELY">>>>,
   <<"ike.vendor_ids", <<"x2", "VPN">>>>, <<"category", <<"c2">>>>, <<"domain", <<"d1">>>>}
HostsOfHelp ==
  {Host({Http, Https}, FactsOfOne \cup FactsOfThree), Host({Http, Ssh}, FactsOfTwo)}
\* The words of the help, but those the server does not understand, `notes' among them
\* where it has no notepad, and those that the help does not follow.
NotepadWords ==
  {e.name : e \in Help!HELP_FILTERS} \ {"cert.keytype", "cacert.keytype", "x11", "useragent"}
AllWords == NotepadWords \ {"notes"}
FollowedWords == NotepadWords \ {"ssl-ja3-client", "ssl-ja3-server", "ssl-jarm"}
AllMenus ==
  ({"filter"} \X {"NFS", "nis", "x11srv", "x11open", "xp445", "SMB shares", "writable", "mssqlemptypwd",
   "authhttp", "Shared web files", "owa", "phpmyadmin", "Anonymous FTP", "anonldap",
   "authbypassvnc", "mysqlemptypwd", "http-open-proxy", "socks-open-proxy", "smtp-open-relay",
   "FTP Bounce", "Webcam", "geovision", "netdev", "phonedev", "Screenshots", "Shared files"})
    \cup ({"sort"} \X BOOLEAN \X Help!Orders)

\* LegacyWords: what a click writes, with the quotes and the spaces of its value.
Clicked(neg, type, value) == [neg |-> neg, type |-> type, value |-> value]
ClickedWords ==
  {Clicked(FALSE, <<"a">>, value) : value \in {<<"a", " ", "a">>, <<"\"", "a", "'", "\"">>}}
    \cup {Clicked(FALSE, <<"b">>, value) : value \in {<<"\"">>, None, <<>>, <<"'", "\"">>}}
    \cup {Clicked(TRUE, <<"b">>, <<"'">>)}

\* LegacyResults: a host for each script, one whose scripts have no answer, one that has
\* everything, and the shapes of an IPv6 address.
CardWord(neg, type, value) == [neg |-> neg, type |-> type, value |-> value]
CardScript(id, answers) == [id |-> id, answers |-> answers]
CardPort(name, state) == [name |-> name, state |-> state]
Addr(v6, parts) == [v6 |-> v6, parts |-> parts]
HostAt(addr, scripts, ports) ==
  [addr |-> addr, names |-> {}, facts |-> {}, hops |-> {}, cpes |-> {}, ports |-> ports,
   scripts |-> scripts]
Ids ==
  {"afp-ls", "ftp-anon", "http-ls", "nfs-ls", "smb-ls", "realvnc-auth-bypass",
   "http-default-accounts", "http-auth", "banner", "http-headers", "rpcinfo",
   "ms-sql-empty-password", "mysql-empty-password", "ssh-hostkey", "http-auth-finder",
   "http-title", "html-title", "smb-os-discovery", "ntlm-info", "smb-enum-shares",
   "x11-access"}
Six ==
  {<<"fe80", "", "1">>, <<"", "", "1">>, <<"", "", "">>, <<"fe80", "", "">>,
   <<"fe80", "", "1", "2">>, <<"1", "2", "3", "4", "5", "6", "7", "8">>,
   <<"", "", "2", "3", "4", "5", "6", "7">>, <<"1", "2", "3", "4", "5", "6", "", "">>}
HostsOfCards ==
  {HostAt(Addr(FALSE, <<"10", "0", "0", id>>), {CardScript(id, TRUE)}, {CardPort("tcp/445", "open")}) :
     id \in Ids}
    \cup {HostAt(Addr(FALSE, <<"10", "0", "1", "1">>), {CardScript(id, FALSE) : id \in Ids},
                 {CardPort("tcp/80", "closed"), CardPort("tcp/22", "filtered")})}
    \cup {[HostAt(Addr(FALSE, <<"10", "0", "1", "2">>), {CardScript(id, TRUE) : id \in Ids},
                  {CardPort("tcp/80", "open"), CardPort("tcp/22", "open"), CardPort("udp/53", "closed")})
           EXCEPT !.names = {<<"www", "ivre", "rocks">>, <<"rocks">>},
                  !.hops = {Addr(FALSE, <<"10", "0", "0", "9">>), Addr(TRUE, <<"fe80", "", "9">>)},
                  !.facts = {<<"category", "c">>, <<"country", "FR">>, <<"city", "Paris">>,
                             <<"asnum", "1">>, <<"source", "s">>, <<"tag", "t">>},
                  !.cpes = {<<"a", "f5", "nginx", "1">>, <<"a", "f5", "nginx", None>>,
                            <<"o", None, "linux", "2">>, <<"h", None, None, None>>}]}
    \cup {HostAt(Addr(TRUE, parts), {}, {}) : parts \in Six}
\* The words that the page has scripts for, alone and with a value, and words of ports.
Mode(kind, args) == [kind |-> kind, args |-> args]
TypedWords ==
  {CardWord(FALSE, type, None) :
     type \in {"anonftp", "authbypassvnc", "authhttp", "file", "webfiles", "nfs", "nis", "yp",
               "mssqlemptypwd", "mysqlemptypwd", "sshkey", "owa", "phpmyadmin", "xp445",
               "smbshare", "x11open"}}
    \cup {CardWord(FALSE, type, "v") :
            type \in {"banner", "cookie", "file", "sshkey", "smb.os", "smb.domain_dns",
                      "ntlm.os", "ntlm.fqdn"}}
    \cup {CardWord(FALSE, "smbshare", "w"), CardWord(FALSE, "script", "rpcinfo"),
          CardWord(TRUE, "script", "rpcinfo"), CardWord(TRUE, "phpmyadmin", None),
          CardWord(FALSE, "port", "tcp/80"), CardWord(TRUE, "port", "tcp/80"),
          CardWord(FALSE, "open", {"tcp/80", "tcp/22"}), CardWord(FALSE, "closed", {"tcp/80"}),
          CardWord(FALSE, "filtered", {"tcp/22"}),
          CardWord(TRUE, "hop", Addr(FALSE, <<"10", "0", "0", "9">>))}
    \cup {CardWord(FALSE, "display", mode) :
            mode \in {Mode("script", {"ls"}), Mode("script", {}), Mode("port", {"80"}), Mode("cpe", {})}}
\* The entries of the menus that choose a display.
Entry(type, value, args) ==
  [word |-> CardWord(FALSE, type, value), display |-> Mode("script", args)]
MenusOfDisplays ==
  {Entry("nfs", None, {"rpcinfo", "nfs-showmount", "nfs-ls"}),
   Entry("smbshare", None, {"smb-enum-shares", "smb-ls"}),
   Entry("smbshare", "w", {"smb-enum-shares", "smb-ls"}),
   Entry("webfiles", None, {"ls"}), Entry("file", None, {"ls"}),
   Entry("anonftp", None, {"ftp-anon"})}

\* LegacyFlow: flows a, b and c, and times of one, two and four units that are aligned,
\* as those of a store whose precision was reduced twice.
Time(s, n) == [start |-> s, len |-> n]
Flow(name, times) == [id |-> name, times |-> times]
Aligned ==
  {Time(s, 1) : s \in 0 .. 6} \cup {Time(2 * s, 2) : s \in 0 .. 3} \cup {Time(0, 4), Time(4, 4)}
\* All the graphs of a flow with a time or two and another with one.
ManyDatas ==
  {<<Flow("a", {t, u}), Flow("b", {v})>> : t \in Aligned, u \in Aligned, v \in Aligned}
TwoSlots == <<Flow("a", {Time(0, 1)}), Flow("b", {Time(1, 1)})>>
LongSlot == <<Flow("c", {Time(0, 2)}), Flow("b", {Time(3, 1)}), Flow("a", {Time(1, 1)})>>
Untimed == <<Flow("c", {}), Flow("a", {})>>
PageDatas == {LongSlot, Untimed}
\* The display filters that the documentation describes.
Criterion(label, of) == [label |-> label, of |-> of]
Display(nodes, edges) == [nodes |-> <<nodes>>, edges |-> <<edges>>]
Plain == Display(Criterion(None, "$in"), Criterion(None, "scbytes"))
Documented ==
  {Display(Criterion(None, n), e) :
     n \in {"$in", "$out"},
     e \in {Criterion(None, "scbytes"), Criterion(None, "count"), Criterion("Flow", "csbytes")}}

-----------------------------------------------------------------------------
(* The scenes.                                                              *)

Results == INSTANCE LegacyGraphs WITH
       Page <- "results", Views <- ViewsOfPage, Elements <- <<>>, AtFirst <- 0, Base <- 2,
       Warn <- 4, MaxBuilds <- 2, MaxMoves <- 0
ASSUME ResultsAssumption == Results!GraphsAssumption
Compare == INSTANCE LegacyGraphs WITH
       Page <- "compare", Views <- <<{0, 2, 3}, {1, 4, 6, 13}>>, Elements <- <<>>,
       AtFirst <- 0, Base <- 2, Warn <- 4, MaxBuilds <- 2, MaxMoves <- 0
ASSUME CompareAssumption == Compare!GraphsAssumption
Report == INSTANCE LegacyGraphs WITH
       Page <- "report", Views <- <<{0, 2, 3}>>,
       Elements <- <<"Map + Top-values", "Top-values", "Top-values">>, AtFirst <- 2,
       Base <- 2, Warn <- 4, MaxBuilds <- 2, MaxMoves <- 1
ASSUME ReportAssumption == Report!GraphsAssumption
HelpWords == INSTANCE FilterHelp WITH
       get_notepad_pages <- FALSE, Typing <- AllWords, Menus <- AllMenus, Fields <- {},
       Hosts <- {}, MaxWords <- 2
ASSUME HelpWordsAssumption == HelpWords!HelpAssumption
HelpTyped == INSTANCE FilterHelp WITH
       get_notepad_pages <- TRUE, Typing <- FollowedWords, Menus <- {}, Fields <- {},
       Hosts <- {}, MaxWords <- 1
ASSUME HelpTypedAssumption == HelpTyped!HelpAssumption
HelpBars == INSTANCE FilterHelp WITH
       get_notepad_pages <- FALSE, Typing <- {}, Menus <- {}, Fields <- FieldsOfPorts,
       Hosts <- HostsOfBars, MaxWords <- 2
ASSUME HelpBarsAssumption == HelpBars!HelpAssumption
HelpScripts == INSTANCE FilterHelp WITH
       get_notepad_pages <- FALSE, Typing <- {}, Menus <- {}, Fields <- FieldsOfScripts,
       Hosts <- HostsOfBars, MaxWords <- 2
ASSUME HelpScriptsAssumption == HelpScripts!HelpAssumption
HelpTopValues == INSTANCE FilterHelp WITH
       get_notepad_pages <- FALSE, Typing <- {}, Menus <- {}, Fields <- FieldsOfHelp,
       Hosts <- HostsOfHelp, MaxWords <- 1
ASSUME HelpTopValuesAssumption == HelpTopValues!HelpAssumption
Boxes == INSTANCE LegacyWords WITH
       Keyboard <- {"a", " ", ":", "\"", "'", "-"}, Clicks <- ClickedWords, MaxLink <- 4,
       MaxTyped <- 2, MaxMoves <- 1
ASSUME BoxesAssumption == Boxes!LegacyWordsAssumption
Cards == INSTANCE LegacyResults WITH
       Typed <- TypedWords, Menu <- MenusOfDisplays, Hosts <- HostsOfCards, MaxWords <- 3
ASSUME CardsAssumption == Cards!ResultsAssumption
FlowPage == INSTANCE LegacyFlow WITH
       Datas <- PageDatas, Formats <- {Plain}, Limit <- 1, MaxFilters <- 1, MaxSkip <- 1,
       MaxPast <- 3, MaxSends <- 2, MaxClicks <- 0, MaxPlays <- 1
ASSUME FlowPageAssumption == FlowPage!FlowPageAssumption
FlowPlays == INSTANCE LegacyFlow WITH
       Datas <- PageDatas, Formats <- {Plain}, Limit <- 1, MaxFilters <- 0, MaxSkip <- 0,
       MaxPast <- 2, MaxSends <- 2, MaxClicks <- 0, MaxPlays <- 2
ASSUME FlowPlaysAssumption == FlowPlays!FlowPageAssumption
FlowSlots == INSTANCE LegacyFlow WITH
       Datas <- ManyDatas, Formats <- {Plain}, Limit <- 1, MaxFilters <- 0, MaxSkip <- 0,
       MaxPast <- 2, MaxSends <- 1, MaxClicks <- 0, MaxPlays <- 0
ASSUME FlowSlotsAssumption == FlowSlots!FlowPageAssumption
FlowClicks == INSTANCE LegacyFlow WITH
       Datas <- {TwoSlots}, Formats <- Documented, Limit <- 1, MaxFilters <- 0, MaxSkip <- 0,
       MaxPast <- 2, MaxSends <- 2, MaxClicks <- 2, MaxPlays <- 0
ASSUME FlowClicksAssumption == FlowClicks!FlowPageAssumption

\* The variables a page does not have.
OnlyLegacyGraphs ==
  /\ store = Absent /\ chart = Absent /\ clicked = Absent /\ query = Absent
  /\ boxes = Absent /\ meant = Absent /\ words = Absent /\ picked = Absent
  /\ ready = Absent /\ url = Absent /\ past = Absent /\ sent = Absent
  /\ found = Absent /\ dated = Absent /\ visible = Absent /\ hovered = Absent
  /\ playing = Absent /\ chains = Absent /\ plays = Absent /\ details = Absent
  /\ format = Absent
notLegacyGraphs ==
  <<store, chart, clicked, query, boxes, meant, words, picked, ready, url, past, sent,
    found, dated, visible, hovered, playing, chains, plays, details, format>>
OnlyFilterHelp ==
  /\ filters = Absent /\ count = Absent /\ counting = Absent /\ elements = Absent
  /\ content = Absent /\ title = Absent /\ shown = Absent /\ requests = Absent
  /\ same16 = Absent /\ builds = Absent /\ moves = Absent /\ dirty = Absent
  /\ query = Absent /\ boxes = Absent /\ meant = Absent /\ words = Absent
  /\ picked = Absent /\ ready = Absent /\ url = Absent /\ past = Absent
  /\ sent = Absent /\ found = Absent /\ dated = Absent /\ visible = Absent
  /\ hovered = Absent /\ playing = Absent /\ chains = Absent /\ plays = Absent
  /\ details = Absent /\ format = Absent
notFilterHelp ==
  <<filters, count, counting, elements, content, title, shown, requests, same16, builds,
    moves, dirty, query, boxes, meant, words, picked, ready, url, past, sent, found,
    dated, visible, hovered, playing, chains, plays, details, format>>
OnlyLegacyWords ==
  /\ filters = Absent /\ count = Absent /\ counting = Absent /\ elements = Absent
  /\ content = Absent /\ title = Absent /\ shown = Absent /\ requests = Absent
  /\ same16 = Absent /\ builds = Absent /\ dirty = Absent /\ chart = Absent
  /\ clicked = Absent /\ words = Absent /\ picked = Absent /\ ready = Absent
  /\ url = Absent /\ past = Absent /\ sent = Absent /\ found = Absent
  /\ dated = Absent /\ visible = Absent /\ hovered = Absent /\ playing = Absent
  /\ chains = Absent /\ plays = Absent /\ details = Absent /\ format = Absent
notLegacyWords ==
  <<filters, count, counting, elements, content, title, shown, requests, same16, builds,
    dirty, chart, clicked, words, picked, ready, url, past, sent, found, dated, visible,
    hovered, playing, chains, plays, details, format>>
OnlyLegacyResults ==
  /\ filters = Absent /\ count = Absent /\ counting = Absent /\ elements = Absent
  /\ content = Absent /\ title = Absent /\ shown = Absent /\ requests = Absent
  /\ same16 = Absent /\ builds = Absent /\ moves = Absent /\ dirty = Absent
  /\ store = Absent /\ chart = Absent /\ query = Absent /\ boxes = Absent
  /\ meant = Absent /\ ready = Absent /\ url = Absent /\ past = Absent
  /\ sent = Absent /\ found = Absent /\ dated = Absent /\ visible = Absent
  /\ hovered = Absent /\ playing = Absent /\ chains = Absent /\ plays = Absent
  /\ details = Absent /\ format = Absent
notLegacyResults ==
  <<filters, count, counting, elements, content, title, shown, requests, same16, builds,
    moves, dirty, store, chart, query, boxes, meant, ready, url, past, sent, found,
    dated, visible, hovered, playing, chains, plays, details, format>>
OnlyLegacyFlow ==
  /\ filters = Absent /\ count = Absent /\ counting = Absent /\ elements = Absent
  /\ content = Absent /\ title = Absent /\ same16 = Absent /\ builds = Absent
  /\ moves = Absent /\ dirty = Absent /\ store = Absent /\ chart = Absent
  /\ boxes = Absent /\ meant = Absent /\ words = Absent /\ picked = Absent
notLegacyFlow ==
  <<filters, count, counting, elements, content, title, same16, builds, moves, dirty, store,
    chart, boxes, meant, words, picked>>

Init ==
  \/ scene = "results" /\ Results!Init /\ OnlyLegacyGraphs
  \/ scene = "compare" /\ Compare!Init /\ OnlyLegacyGraphs
  \/ scene = "report" /\ Report!Init /\ OnlyLegacyGraphs
  \/ scene = "words" /\ HelpWords!Init /\ OnlyFilterHelp
  \/ scene = "typed" /\ HelpTyped!Init /\ OnlyFilterHelp
  \/ scene = "bars" /\ HelpBars!Init /\ OnlyFilterHelp
  \/ scene = "scripts" /\ HelpScripts!Init /\ OnlyFilterHelp
  \/ scene = "documented" /\ HelpTopValues!Init /\ OnlyFilterHelp
  \/ scene = "boxes" /\ Boxes!Init /\ OnlyLegacyWords
  \/ scene = "cards" /\ Cards!Init /\ OnlyLegacyResults
  \/ scene = "flow" /\ FlowPage!Init /\ OnlyLegacyFlow
  \/ scene = "plays" /\ FlowPlays!Init /\ OnlyLegacyFlow
  \/ scene = "timeline" /\ FlowSlots!Init /\ OnlyLegacyFlow
  \/ scene = "clicks" /\ FlowClicks!Init /\ OnlyLegacyFlow

Next ==
  /\ UNCHANGED scene
  /\ \/ scene = "results" /\ Results!Next /\ UNCHANGED notLegacyGraphs
     \/ scene = "compare" /\ Compare!Next /\ UNCHANGED notLegacyGraphs
     \/ scene = "report" /\ Report!Next /\ UNCHANGED notLegacyGraphs
     \/ scene = "words" /\ HelpWords!Next /\ UNCHANGED notFilterHelp
     \/ scene = "typed" /\ HelpTyped!Next /\ UNCHANGED notFilterHelp
     \/ scene = "bars" /\ HelpBars!Next /\ UNCHANGED notFilterHelp
     \/ scene = "scripts" /\ HelpScripts!Next /\ UNCHANGED notFilterHelp
     \/ scene = "documented" /\ HelpTopValues!Next /\ UNCHANGED notFilterHelp
     \/ scene = "boxes" /\ Boxes!Next /\ UNCHANGED notLegacyWords
     \/ scene = "cards" /\ Cards!Next /\ UNCHANGED notLegacyResults
     \/ scene = "flow" /\ FlowPage!Next /\ UNCHANGED notLegacyFlow
     \/ scene = "plays" /\ FlowPlays!Next /\ UNCHANGED notLegacyFlow
     \/ scene = "timeline" /\ FlowSlots!Next /\ UNCHANGED notLegacyFlow
     \/ scene = "clicks" /\ FlowClicks!Next /\ UNCHANGED notLegacyFlow

Spec == Init /\ [][Next]_vars

-----------------------------------------------------------------------------
(* The properties.                                                          *)

\* A chart is of the filter of the page, with the title of what was drawn last; a brush
\* selects the dots it went over, no two dots or dates are the same; a report that was
\* built is complete (graph.js).
ChartsHold ==
  /\ scene = "results" =>
       /\ Results!TypeOK /\ Results!TitleIsOfTheLast /\ Results!ShownIsAsked
       /\ Results!TopValuesAreFirst /\ Results!BrushSelects /\ Results!DotsAreApart
       /\ Results!AxesCover /\ Results!DatesAreToldApart
  /\ scene = "compare" => /\ Compare!TypeOK /\ Compare!SetsAreApart
                          /\ Compare!TopValuesAreFirst /\ Compare!DotsAreApart
  /\ scene = "report" => Report!TypeOK /\ Report!ReportIsComplete

\* A word that is clicked is in the filter with the others, as it was, and the server
\* finds the same words in the text; the form that is not changed leaves it as it is
\* (params.js, utils.js).
TextHolds ==
  scene = "boxes" =>
    /\ Boxes!TypeOK /\ Boxes!WrittenIsRead /\ Boxes!ServerReadsTheWords
    /\ Boxes!BoxesAreTheFilter

\* What a host was found by is highlighted and shown, and the links of its card keep it in
\* the list (params.js, controllers.js, ivre.js).
ResultsHold ==
  scene = "cards" =>
    /\ Cards!TypeOK /\ Cards!FoundIsHighlighted /\ Cards!MenuShowsWhatIsFound
    /\ Cards!LinksKeepTheHost

\* The server understands the words of the help that the scenes type, of the menus and
\* of the bars, with their sign, `notes' only where it has a notepad; a bar selects the
\* hosts it counted, and others only where its words say less than its label; so with the
\* words of the text and those of the cards (content.js, graph.js, ivre/web/utils.py).
HelpHolds ==
  /\ scene = "words" => HelpWords!Understood /\ HelpWords!SignIsKept
  /\ scene = "typed" => HelpTyped!HelpFollows /\ HelpTyped!Understood
  /\ scene = "bars" => /\ HelpBars!TypeOK /\ HelpBars!Understood
                       /\ HelpBars!SelectedAreCounted /\ HelpBars!CountedAreSelected
  /\ scene = "scripts" => /\ HelpScripts!TypeOK /\ HelpScripts!Understood
                          /\ HelpScripts!SelectedAreCounted
                          /\ HelpScripts!CountedAreSelected
  /\ scene = "documented" => /\ HelpTopValues!Understood
                             /\ HelpTopValues!SelectedAreCounted
                             /\ HelpTopValues!CountedAreSelected
  /\ TextHolds /\ ResultsHold

\* The address of the page of the flows is its query, what is clicked has its own
\* details; each slot of the timeline but the last lights the flows of its times, the last
\* only those that start with it (a flow whose only time it took in is lit by no slot,
\* flow/controllers.js:593-599), and all the flows are visible once it is not played, the
\* timers of former plays included (flow/controllers.js).
FlowPageHolds ==
  /\ scene = "flow" => /\ FlowPage!TypeOK /\ FlowPage!UrlIsTheQuery
                       /\ FlowPage!StoppedShowsAll
  /\ scene = "plays" => FlowPlays!StoppedShowsAll
  /\ scene = "timeline" => /\ FlowSlots!SlotsHoldTimes /\ FlowSlots!LightsAreApart
                           /\ FlowSlots!SlotsShowTheirFlows
  /\ scene = "clicks" => FlowClicks!ClickedHasDetails /\ FlowClicks!SizeIsTyped
=============================================================================
