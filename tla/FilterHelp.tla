----------------------------- MODULE FilterHelp -----------------------------
(***************************************************************************)
(* The words of a filter in the classic web interface: what the help says   *)
(* can be typed and what the menus write (ivre/content.js), what a click on *)
(* a bar of a top values chart writes (ivre/graph.js), how a word enters    *)
(* the filter (setparam of ivre/params.js), and how the server reads it     *)
(* (flt_from_query of ivre/web/utils.py).                                   *)
(*                                                                          *)
(* A word has a sign, a type and the parts of its value that colons         *)
(* separate.  Every text typed is "word" and every number "80": what        *)
(* matters is which of the two the server expects.  The three words that    *)
(* have no type are written PORT, IPADDR and NETADDR.  The help of a word   *)
(* is a name, the shapes its value may have, whether its title says that it *)
(* can be negated, and whether the key is completed once negated.           *)
(***************************************************************************)
EXTENDS Naturals, FiniteSets, Sequences, SequencesExt

CONSTANTS Typing,     \* the names of the words that are typed
          Menus,      \* the entries of the menus that are clicked
          Fields,     \* the fields of the charts that are asked for
          Hosts,      \* the hosts of the view
          get_notepad_pages, \* whether the server has a notepad; none by default
          MaxWords,   \* bound: the words of the filter
          Null        \* no value, no chart, no word for a bar

HelpAssumption == MaxWords \in Nat /\ get_notepad_pages \in BOOLEAN

VARIABLES
  store,   \* parametersobj: the words of the filter
  chart,   \* the field of the chart of top values that is shown, or Null
  clicked  \* the last bar, until the filter changes again: its field, its label,
           \* and the filter the chart counted under

vars == <<store, chart, clicked>>

Word(neg, type, args) == [neg |-> neg, type |-> type, args |-> args]

-----------------------------------------------------------------------------
(* The help.                                                                *)

T == "text"
N == "number"
One == {<<T>>}
Bare == {<<>>}
Maybe == {<<>>, <<T>>}

Entry(names, shapes, neg, keyed) ==
  [name : names, shapes : {shapes}, neg : {neg}, keyed : {keyed}]
Help(names, shapes) == Entry(names, shapes, FALSE, FALSE)
Negatable(names, shapes) == Entry(names, shapes, TRUE, TRUE)
\* The title starts with (!), and not with <b>(!)</b>.
Plain(names, shapes) == Entry(names, shapes, TRUE, FALSE)

HelpHosts ==
  Negatable({"id", "host", "net", "range", "hostname", "domain", "category", "country",
             "city", "asnum", "asname", "source", "timerange", "timeago"}, One)
    \cup Negatable({"IPADDR", "NETADDR"}, One) \cup Negatable({"ipv4", "ipv6"}, Bare)
    \cup Help({"service"}, {<<T>>, <<T, N>>})
    \cup Help({"product"}, {<<T, T>>, <<T, T, N>>})
    \cup Help({"version"}, {<<T, T, T>>, <<T, T, T, N>>})
    \cup Negatable({"script"}, {<<T>>, <<T, T>>})
HelpScripts ==
  Help({"anonftp", "anonldap", "authbypassvnc", "authhttp", "geovision", "nfs", "nis", "yp",
        "mssqlemptypwd", "mysqlemptypwd", "owa", "phpmyadmin"}, Bare)
    \cup Help({"banner", "cookie", "httptitle"}, One)
    \cup Help({"file", "httphdr", "httpapp"}, {<<>>, <<T>>, <<T, T>>})
HelpWindows ==
  Help({"smb.lanmanager", "smb.os", "smb.smb-version", "smb.guid", "ntlm.domain_dns",
        "ntlm.domain", "ntlm.fqdn", "ntlm.forest", "ntlm.os", "ntlm.version", "ntlm.server",
        "ntlm.name", "ntlm.workgroup", "ntlm.DNS_Domain_Name", "ntlm.NetBIOS_Domain_Name",
        "ntlm.DNS_Computer_Name", "ntlm.DNS_Tree_Name", "ntlm.Product_Version",
        "ntlm.NTLM_Version", "ntlm.NetBIOS_Computer_Name", "ntlm.Workgroup"}, One)
    \cup Help({"smbshare"}, Maybe)
\* The title of x11srv says x11.
HelpKeys ==
  Help({"sshkey"}, Maybe)
    \cup Help({"sshkey.type", "sshkey.bits", "sshkey.fingerprint", "sshkey.key"}, One)
    \cup Help({"torcert", "webfiles", "webmin", "x11open", "x11srv", "x11", "xp445"}, Bare)
    \cup Help({"vuln"}, {<<>>, <<T>>, <<T, T>>})
HelpCerts ==
    Negatable({"cert.keytype", "cert.subject", "cert.issuer", "cert.md5", "cert.sha1",
               "cert.sha256", "cert.pkmd5", "cert.pksha1", "cert.pksha256", "cacert.keytype",
               "cacert.subject", "cacert.issuer", "cacert.md5", "cacert.sha1",
               "cacert.sha256", "cacert.pkmd5", "cacert.pksha1", "cacert.pksha256"}, One)
      \cup Negatable({"cert.self_signed", "cacert.self_signed"}, Bare)
      \cup Plain({"ssl-ja3-client", "ssl-jarm", "useragent"}, Maybe)
      \cup Plain({"ssl-ja3-server"}, {<<>>, <<T>>, <<T, T>>})
      \cup Help({"hassh", "hassh-client", "hassh-server"}, Maybe)
HelpDevices ==
  Help({"os", "devtype", "devicetype"}, One)
    \cup Help({"netdev", "networkdevice", "phonedev"}, Bare)
    \cup Help({"cpe"}, {<<>>, <<T>>, <<T, T>>, <<T, T, T>>, <<T, T, T, T>>})
HelpResults ==
  Negatable({"hop"}, {<<T>>, <<T, N>>})
    \cup Negatable({"hopname", "hopdomain"}, One)
    \cup Negatable({"openport"}, Bare) \cup Negatable({"PORT", "countports"}, {<<N>>})
    \cup Negatable({"screenshot"}, Maybe)
    \cup Negatable({"screenwords", "tag"}, {<<>>, <<T>>, <<T, T>>})
    \cup Help({"otheropenport"}, {<<N>>})
    \cup Help({"ike.notification", "ike.vendor_id.name", "ike.vendor_id.value", "search"}, One)
    \cup Help({"notes"}, Bare)
HelpPages ==
  Help({"skip", "limit"}, {<<N>>}) \cup Negatable({"sortby"}, One)
HelpDisplay == Help({"display"}, {<<T>>, <<T, T>>})

HELP_FILTERS ==
  HelpHosts \cup HelpScripts \cup HelpWindows \cup HelpKeys \cup HelpCerts \cup HelpDevices
    \cup HelpResults \cup HelpPages \cup HelpDisplay

Instance(shape) == [i \in DOMAIN shape |-> IF shape[i] = N THEN "80" ELSE "word"]
\* The words that the title of an entry describes.
Documented(entry) ==
  {Word(neg, entry.name, Instance(shape)) :
     neg \in IF entry.neg THEN BOOLEAN ELSE {FALSE}, shape \in entry.shapes}

prepare(help) ==
  UNION {{<<neg, e.name, shape # <<>>>> :
            neg \in IF e.keyed THEN BOOLEAN ELSE {FALSE}, shape \in e.shapes} : e \in help}

\* The help shows something while the word is typed.
Completed(w) ==
  w.type \in {"PORT", "IPADDR", "NETADDR"} \/ <<w.neg, w.type, w.args # <<>>>> \in prepare(HELP_FILTERS)

-----------------------------------------------------------------------------
(* The server.  A word is read as a filter with a sign, says something of   *)
(* the page, is left unused (and reported), or fails the request.           *)

Filters(neg) == [kind |-> "filter", neg |-> neg]
Page == [kind |-> "page", neg |-> FALSE]
Unused == [kind |-> "unused", neg |-> FALSE]
Failed == [kind |-> "error", neg |-> FALSE]
When(cond, reading, other) == IF cond THEN reading ELSE other
Number(part) == part \in {"0", "1", "2", "3", "80", "443"}

SignedTexts ==
  {"id", "host", "net", "range", "hostname", "domain", "category", "country", "city", "asnum",
   "asname", "source", "timerange", "timeago", "script", "hopname", "hopdomain"}
CertTexts ==
  {e.name : e \in {h \in HelpCerts : h.neg /\ h.keyed}}
    \ {"cert.keytype", "cacert.keytype", "cert.self_signed", "cacert.self_signed"}
SignedOptions ==
  {"cert", "cacert", "ssl-ja3-client", "ssl-ja4-client", "ssl-ja3-server", "ssl-jarm",
   "screenshot", "screenwords", "tag"}
UnsignedTexts ==
  {"banner", "cookie", "os", "devtype", "devicetype", "search", "ike.vendor_id.name",
   "ike.vendor_id.value", "ike.notification", "sshkey.fingerprint", "sshkey.key",
   "sshkey.type", "sshkey.bits"} \cup ({e.name : e \in HelpWindows} \ {"smbshare"})
UnsignedOptions ==
  {"anonftp", "anonldap", "authbypassvnc", "authhttp", "file", "vuln", "geovision", "nfs",
   "nis", "yp", "mssqlemptypwd", "mysqlemptypwd", "sshkey", "httphdr", "httpapp", "owa",
   "smbshare", "torcert", "webfiles", "webmin", "x11srv", "x11open", "xp445", "hassh",
   "hassh-client", "hassh-server", "netdev", "networkdevice", "phonedev", "cpe"}
Untyped == {"PORT", "IPADDR", "NETADDR"}
BareWords == {"openport", "ipv4", "ipv6"} \cup IF get_notepad_pages THEN {"notes"} ELSE {}

ReadService(w) ==
  LET n == Len(w.args) IN
    CASE w.type = "service" -> When(n = 1 \/ (n = 2 /\ Number(w.args[2])), Filters(FALSE), Failed)
      [] w.type = "product" /\ n < 2 -> Unused
      [] w.type = "product" /\ n >= 2 ->
           When(n = 2 \/ (n = 3 /\ Number(w.args[3])), Filters(FALSE), Failed)
      [] w.type = "version" /\ n < 3 -> Unused
      [] OTHER -> When(n = 3 \/ (n = 4 /\ Number(w.args[4])), Filters(FALSE), Failed)
flt_from_query(w) ==
  LET n == Len(w.args) IN
    CASE w.type \in SignedTexts \cup CertTexts -> When(n > 0, Filters(w.neg), Failed)
      [] w.type \in SignedOptions -> Filters(w.neg)
      [] w.type \in {"cert.self_signed", "cacert.self_signed"} ->
           When(n = 0, Filters(w.neg), Unused)
      [] w.type = "useragent" -> Filters(n > 0 /\ w.neg)   \* no value: the sign is lost
      [] w.type = "countports" -> When(n = 1 /\ Number(w.args[1]), Filters(w.neg), Failed)
      [] w.type = "hop" ->
           When(n = 1 \/ (n = 2 /\ Number(w.args[2])), Filters(w.neg), Failed)
      [] w.type = "httptitle" -> When(n > 0, Filters(FALSE), Failed)
      [] w.type = "phpmyadmin" -> Filters(FALSE)
      [] w.type \in Untyped -> Filters(w.neg)
      [] w.type \in BareWords -> When(n = 0, Filters(w.neg), Unused)
      [] w.type = "sortby" \/ (w.type \in {"skip", "limit"} /\ ~w.neg) \/ w.type = "display" -> Page
      [] w.neg -> Unused
      [] w.type \in {"service", "product", "version"} -> ReadService(w)
      [] w.type \in UnsignedTexts -> When(n > 0, Filters(FALSE), Failed)
      [] w.type \in UnsignedOptions \cup {"open", "filtered", "closed"} -> Filters(FALSE)
      [] w.type = "otheropenport" -> When(n = 1 /\ Number(w.args[1]), Filters(FALSE), Failed)
      [] OTHER -> Unused

-----------------------------------------------------------------------------
(* The hosts of the view.  A host has ports, and rows of facts of a kind:   *)
(* its place, its tags, what the scripts found.  A column that is missing   *)
(* is Null.  A filter reads some columns of a kind, a chart counts the      *)
(* values of some columns.                                                  *)

Rows(h, kind) == {f[2] : f \in {x \in h.facts : x[1] = kind}}
OpenPorts(h) == {p \in h.ports : p.state = "open"}
CountText(n) == <<"0", "1", "2", "3">>[n + 1]

Reads(type) ==
  CASE type = "asnum" -> <<"as", <<1>>>>
    [] type = "country" -> <<"city", <<1>>>>
    [] type = "city" -> <<"city", <<2>>>>
    [] type = "sshkey.type" -> <<"sshkey", <<1>>>>
    [] type = "sshkey.bits" -> <<"sshkey", <<2>>>>
    [] type = "sshkey.fingerprint" -> <<"sshkey", <<3>>>>
    [] type = "ike.vendor_id.value" -> <<"ike.vendor_ids", <<1>>>>
    [] type = "devicetype" -> <<"devtype", <<1, 2>>>>
    [] type = "NETADDR" -> <<"net", <<1>>>>
    [] OTHER -> <<type, <<1, 2, 3, 4>>>>

Is(value, arg) == IF arg = "-" THEN value = Null ELSE value = arg
OnPort(p, args, i) == Len(args) < i \/ p.port = args[i]
\* No name at all is asked of every port, and of one port when it is given.
searchservice(args, h) ==
  IF args = <<"-">> THEN \A p \in h.ports : p.svc = Null
  ELSE \E p \in h.ports : Is(p.svc, args[1]) /\ OnPort(p, args, 2)
\* A version that is unknown is told by a product that is.
searchproduct(args, hasVersion, h) ==
  \E p \in h.ports :
    /\ Is(p.svc, args[1]) /\ Is(p.prod, args[2])
    /\ hasVersion => IF args[3] = "-" THEN args[2] = "-" /\ p.ver = Null ELSE p.ver = args[3]
    /\ OnPort(p, args, IF hasVersion THEN 4 ELSE 3)
searchports(state, names, h) ==
  \A i \in DOMAIN names : \E p \in h.ports : p.state = state /\ p.name = names[i]

Found(w, h) ==
  LET reads == Reads(w.type) IN
    CASE w.type = "service" -> searchservice(w.args, h)
      [] w.type = "product" -> searchproduct(w.args, FALSE, h)
      [] w.type = "version" -> searchproduct(w.args, TRUE, h)
      [] w.type \in {"open", "filtered", "closed"} -> searchports(w.type, w.args, h)
      [] w.type = "countports" -> CountText(Cardinality(OpenPorts(h))) = w.args[1]
      [] OTHER -> \E row \in Rows(h, reads[1]) :
                    \A i \in DOMAIN w.args : row[reads[2][i]] = w.args[i]
Selected(words, h) ==
  \A w \in words : flt_from_query(w).kind = "filter" => (Found(w, h) # flt_from_query(w).neg)

-----------------------------------------------------------------------------
(* The fields of the charts, a name and what follows it.                    *)

Field(base, sub) == [base |-> base, sub |-> sub]
Alone(bases) == {Field(base, Null) : base \in bases}
With(base, subs) == {Field(base, sub) : sub \in subs}
Hashes == {"md5", "sha1", "sha256", "raw"}

TopOfHosts ==
  With("cpe", {"type", "vendor", "product", "version"})
    \cup Alone({"smb.guid", "smb.lanmanager", "smb.os", "smb.smb-version", "ntlm.domain_dns",
                "ntlm.domain", "ntlm.forest_dns", "ntlm.workgroup", "ntlm.os", "ntlm.version",
                "domains"})
    \cup With("file", {"filename", "time", "size", "uid", "gid", "permission"})
TopOfPorts ==
  With("portlist", {"open", "filtered"}) \cup With("countports", {"open", "closed", "filtered"})
    \cup With("service", {"80"}) \cup With("script", {"id"}) \cup With("devicetype", {"80"})
    \cup With("version", {"80"}) \cup With("vulns", {"title", "state", "refs", "extra_info"})
    \cup Alone({"as", "modbus.deviceid", "enip.ip", "mongo.dbs.databases.name", "vulns.id",
                "port", "category", "city", "net", "scanner.name", "scanner.port:tcp",
                "scanner.port:udp", "screenwords", "service", "script", "source", "s7.module",
                "s7.version", "s7.system_name", "s7.module_name", "s7.plant", "s7.copyright",
                "version"})
TopOfCerts ==
  With("product", {"80"}) \cup With("port", {"open", "closed", "filtered"})
    \cup With("hop", {"1"}) \cup With("portlist", {"closed"})
    \cup Alone({"hop", "product", "cert.subject", "cert.issuer", "cert.md5", "cert.sha1",
                "cert.sha256", "cert.pubkey.md5", "cert.pubkey.sha1", "cert.pubkey.sha256",
                "sshkey.type", "sshkey.bits", "sshkey.fingerprint", "devicetype", "country",
                "enip.prodcode", "enip.rev", "enip.devtype", "enip.product", "enip.vendor",
                "enip.serial", "ike.notification", "ike.transforms", "ike.vendor_ids"})
    \cup With("ike.transforms", {"Authentication", "Encryption", "GroupDesc", "Hash",
                                 "LifeDuration", "LifeType"})
    \cup With("ike.vendor_ids", {"name", "value"})
TopOfAgents ==
  With("tag.", {"value", "type", "info"}) \cup With("httphdr.", {"name", "value"})
    \cup With("tag", {"lab"}) \cup With("httphdr", {"server"}) \cup With("httpapp", {"wiki"})
    \cup With("ja3-client", Hashes) \cup With("hassh", Hashes)
    \cup With("hassh-client", Hashes) \cup With("hassh-server", Hashes)
    \cup Alone({"tag", "httphdr", "httpapp", "useragent", "ja3-client", "jarm", "hassh",
                "hassh-client", "hassh-server"})
HELP_TOPVALUES == TopOfHosts \cup TopOfPorts \cup TopOfCerts \cup TopOfAgents

-----------------------------------------------------------------------------
(* The server counts the values of a field.  What a field counts: the kind, *)
(* the columns of its labels, and the column that its suffix is matched to. *)

Shows(f) ==
  CASE f.base = "asnum" -> <<"as", <<1>>, 0>>
    [] f.base = "as" -> <<"as", <<1, 2>>, 0>>
    [] f.base = "country" -> <<"city", <<1>>, 0>>
    [] f.base = "city" -> <<"city", <<1, 2>>, 0>>
    [] f.base = "script" /\ f.sub # Null -> <<"script", <<2>>, 1>>
    [] f.base = "vulns.id" -> <<"vuln", <<1>>, 0>>
    [] f.base = "vulns" -> <<"vuln", <<1, 2>>, 0>>
    [] f.base = "devicetype" -> <<"devtype", <<1>>, 2>>
    [] f.base = "domains" -> <<"domain", <<1>>, 0>>
    [] f.base = "cert.pubkey.md5" -> <<"cert.pkmd5", <<1>>, 0>>
    [] f.base = "cert.pubkey.sha1" -> <<"cert.pksha1", <<1>>, 0>>
    [] f.base = "cert.pubkey.sha256" -> <<"cert.pksha256", <<1>>, 0>>
    [] f.base = "sshkey.type" -> <<"sshkey", <<1>>, 0>>
    [] f.base = "sshkey.bits" -> <<"sshkey", <<1, 2>>, 0>>
    [] f.base = "sshkey.fingerprint" -> <<"sshkey", <<3>>, 0>>
    [] f.base = "ike.vendor_ids" ->
         <<"ike.vendor_ids",
           CASE f.sub = "value" -> <<1>> [] f.sub = "name" -> <<2>> [] OTHER -> <<1, 2>>, 0>>
    [] f.base \in {"tag", "httphdr", "httpapp"} ->
         IF f.sub = Null THEN <<f.base, <<1, 2>>, 0>> ELSE <<f.base, <<2>>, 1>>
    [] f.base = "tag." -> <<"tag", IF f.sub = "value" THEN <<1>> ELSE <<2>>, 0>>
    [] f.base = "httphdr." -> <<"httphdr", IF f.sub = "name" THEN <<1>> ELSE <<2>>, 0>>
    [] f.base = "hop" -> <<"hop", <<1>>, 2>>
    [] f.base = "cpe" ->
         <<"cpe", CASE f.sub = "type" -> <<1>> [] f.sub = "vendor" -> <<1, 2>>
                    [] f.sub = "product" -> <<1, 2, 3>> [] OTHER -> <<1, 2, 3, 4>>, 0>>
    [] f.base = "ja3-client" -> <<"ssl-ja3-client", <<1>>, 2>>
    [] f.base = "jarm" -> <<"ssl-jarm", <<1>>, 0>>
    [] f.base \in {"hassh", "hassh-client", "hassh-server"} -> <<f.base, <<1>>, 2>>
    [] OTHER -> <<f.base, <<1>>, 0>>

OnPorts(h, f) ==
  CASE f.sub = Null -> OpenPorts(h)
    [] Number(f.sub) -> IF \E p \in OpenPorts(h) : p.port = f.sub
                        THEN {p \in h.ports : p.port = f.sub} ELSE {}
    [] OTHER -> {p \in h.ports : p.svc = f.sub}
InState(h, state) == {p \in h.ports : p.state = state}
topvaluesPorts(f, h) ==
  CASE f.base = "port" /\ f.sub = Null -> {<<p.name>> : p \in h.ports}
    [] f.base = "port" /\ f.sub # Null -> {<<p.name>> : p \in {q \in h.ports : f.sub \in {q.state, q.svc}}}
    [] f.base = "portlist" -> {SetToSeq({p.name : p \in InState(h, f.sub)})}
    [] f.base = "countports" -> {<<CountText(Cardinality(InState(h, f.sub)))>>}
    [] f.base = "service" -> {<<p.svc>> : p \in OnPorts(h, f)}
    [] f.base = "product" -> {<<p.svc, p.prod>> : p \in OnPorts(h, f)}
    [] OTHER -> {<<p.svc, p.prod, p.ver>> : p \in OnPorts(h, f)}
topvaluesFacts(f, h) ==
  LET shows == Shows(f)
      rows == {row \in Rows(h, shows[1]) :
                 shows[3] # 0 /\ f.sub # Null => row[shows[3]] = f.sub}
      labels == {[i \in DOMAIN shows[2] |-> row[shows[2][i]]] : row \in rows}
  IN {l \in labels : /\ l # <<Null>>
                     /\ f.base \in {"city", "tag"} => l[Len(l)] # Null}
PortFields == {"port", "portlist", "countports", "service", "product", "version"}
topvalues(f, h) == IF f.base \in PortFields THEN topvaluesPorts(f, h) ELSE topvaluesFacts(f, h)

-----------------------------------------------------------------------------
(* What a click on a bar writes, in the order of the code: for a field and  *)
(* a label, the words and whether each replaces those of its type.  No word *)
(* at all when the bar cannot be clicked.                                   *)

Write(type, args, unique) == [word |-> Word(FALSE, type, args), unique |-> unique]
Adds(type, args) == <<Write(type, args, FALSE)>>
Sets(type, args) == <<Write(type, args, TRUE)>>
Text(value) == IF value = Null THEN "null" ELSE value
OrDash(value) == IF value = Null THEN "-" ELSE value

PlaceBars(f, x) ==
  CASE f.base = "portlist" ->
         IF f.sub # "open" THEN <<>>
         ELSE (IF x = <<>> THEN <<>> ELSE Sets("open", x)) \o Sets("countports", <<CountText(Len(x))>>)
    [] f.base = "net" -> Adds("NETADDR", x)
    [] f.base \in {"cert.md5", "cert.sha1", "cert.sha256", "sshkey.type", "sshkey.fingerprint"} ->
         Adds(f.base, x)
    [] f.base = "cert.pubkey.md5" -> Adds("cert.pkmd5", x)
    [] f.base = "cert.pubkey.sha1" -> Adds("cert.pksha1", x)
    [] f.base = "cert.pubkey.sha256" -> Adds("cert.pksha256", x)
    [] f.base \in {"asnum", "smb.os", "smb.guid", "smb.lanmanager", "smb.smb-version"} ->
         Sets(f.base, x)
    [] f.base = "sshkey.bits" -> Adds("sshkey.type", <<x[1]>>) \o Adds("sshkey.bits", <<x[2]>>)
    [] OTHER -> <<>>
OwnerBars(f, x) ==
  CASE f.base = "devicetype" -> IF f.sub = Null THEN Sets("devtype", x) ELSE <<>>
    [] f.base = "as" -> Sets("asnum", <<x[1]>>)
    [] f.base = "country" -> Sets("country", x)
    [] f.base = "city" -> Sets("country", <<x[1]>>) \o Adds("city", <<x[2]>>)
    [] f.base \in {"vulns.id", "vulns"} -> Adds("vuln", <<x[1]>>)
    [] f.base = "category" -> Adds("category", x)
    [] f.base = "source" -> Sets("source", x)
    [] f.base = "script" -> IF f.sub = Null THEN Adds("script", x) ELSE <<>>
    [] OTHER -> <<>>
\* A port is a protocol and a number: joined by a comma where one value is meant.
Joined(name) == CASE name = "tcp/80" -> "tcp,80" [] name = "tcp/443" -> "tcp,443"
                  [] name = "tcp/22" -> "tcp,22" [] OTHER -> name
Suffix(f) == IF f.sub # Null /\ Number(f.sub) THEN <<f.sub>> ELSE <<>>
PortBars(f, x) ==
  CASE f.base = "port" /\ f.sub = Null -> <<>>
    [] f.base = "port" /\ f.sub \in {"open", "filtered", "closed"} -> Adds(f.sub, x)
    [] f.base = "port" /\ f.sub \notin {"open", "filtered", "closed", Null} ->
         Adds("service", <<f.sub, Joined(x[1])>>)
    [] f.base = "countports" -> IF f.sub = "open" THEN Adds("countports", x) ELSE <<>>
    [] f.base = "service" ->
         Adds("service", <<OrDash(x[1])>> \o IF f.sub = Null THEN <<>> ELSE <<f.sub>>)
    [] f.base \in {"product", "version"} ->
         Adds(f.base, [i \in DOMAIN x |-> OrDash(x[i])] \o Suffix(f))
    [] f.base \in {"cpe", "screenwords"} -> Adds(f.base, x)
    [] OTHER -> <<>>
\* The TTL goes where setparam takes whether the word replaces the others.
HopBars(f, x) == IF f.sub = Null THEN Adds("hop", x) ELSE Sets("hop", x)
\* Slip: the value alone, with any further detail.
TagBarsShort(f, x) ==
  CASE f.base = "tag" -> Adds("tag", <<x[1]>>)
    [] f.base = "tag." /\ f.sub = "value" -> Adds("tag", x)
    [] OTHER -> <<>>
TagBars(f, x) ==
  CASE f.base = "tag" -> Adds("tag", IF f.sub = Null THEN x ELSE <<f.sub>> \o x)
    [] f.base = "tag." /\ f.sub = "value" -> Adds("tag", x)
    [] OTHER -> <<>>
ResultBars(f, x) ==
  CASE f.base = "hop" -> HopBars(f, x)
    [] f.base = "domains" -> Adds("domain", x)
    [] f.base = "ike.vendor_ids" -> IF f.sub = Null THEN Adds("ike.vendor_id.value", <<x[1]>>) ELSE <<>>
    [] f.base = "ike.notification" -> Adds("ike.notification", x)
    [] f.base = "httphdr." /\ f.sub = "name" -> Adds("httphdr", x)
    [] f.base \in {"httphdr", "httpapp"} ->
         Adds(f.base, IF f.sub = Null THEN [i \in DOMAIN x |-> Text(x[i])] ELSE <<f.sub>> \o x)
    [] f.base = "ja3-client" -> Adds("ssl-ja3-client", x)
    [] f.base = "jarm" -> Adds("ssl-jarm", x)
    [] f.base \in {"hassh", "hassh-client", "hassh-server"} -> Adds(f.base, x)
    [] OTHER -> TagBars(f, x)
BarWords(f, x) == PlaceBars(f, x) \o OwnerBars(f, x) \o PortBars(f, x) \o ResultBars(f, x)

-----------------------------------------------------------------------------
(* The menus.                                                               *)

Shown(part) == Sets("display", part)
MenuFilters(entry) ==
  CASE entry = "NFS" -> Sets("nfs", <<>>) \o Shown(<<"script", "rpcinfo,nfs-showmount,nfs-ls">>)
    [] entry = "SMB shares" -> Sets("smbshare", <<>>) \o Shown(<<"script", "smb-enum-shares,smb-ls">>)
    [] entry = "writable" -> Sets("smbshare", <<"w">>) \o Shown(<<"script", "smb-enum-shares,smb-ls">>)
    [] entry = "Shared web files" -> Sets("webfiles", <<>>) \o Shown(<<"script", "ls">>)
    [] entry = "Git repository" -> Adds("script", <<"http-git", "quoted">>)
    [] entry = "Anonymous FTP" -> Sets("anonftp", <<>>) \o Shown(<<"script", "ftp-anon">>)
    [] entry = "FTP Bounce" -> Adds("script", <<"ftp-bounce", "bounce working!">>)
    [] entry \in {"http-open-proxy", "socks-open-proxy", "smtp-open-relay"} -> Adds("script", <<entry>>)
    [] entry = "Webcam" -> Adds("devicetype", <<"webcam">>)
    [] entry = "Screenshots" -> Sets("screenshot", <<>>) \o Shown(<<"screenshot">>)
    [] entry = "Shared files" -> Sets("file", <<>>) \o Shown(<<"script", "ls">>)
    [] entry \in {"nis", "x11srv", "x11open", "xp445", "mssqlemptypwd", "mysqlemptypwd",
                  "authhttp", "owa", "phpmyadmin", "anonldap", "authbypassvnc", "geovision",
                  "netdev", "phonedev"} -> Adds(entry, <<>>)
    [] OTHER -> <<>>
Orders == {"endtime", "addr", "openports.count"}
MenuSort(neg, field) == <<[word |-> Word(neg, "sortby", <<field>>), unique |-> TRUE]>>
MenuWords(entry) ==
  IF entry[1] = "sort" THEN MenuSort(entry[2], entry[3]) ELSE MenuFilters(entry[2])

-----------------------------------------------------------------------------
(* The filter.                                                              *)

setparam(words, w) ==
  LET kept == {x \in words : w.word.type \in {"limit", "skip"} \/ x.type \notin {"limit", "skip"}}
  IN (IF w.unique THEN {x \in kept : x.type # w.word.type} ELSE kept) \cup {w.word}

Init == store = {} /\ chart = Null /\ clicked = Null

\* A change of the filter asks for the hosts again, which hides the charts.
Commit(words, bar) ==
  /\ Cardinality(words) <= MaxWords
  /\ store' = words /\ chart' = Null /\ clicked' = bar

TypeWord ==
  \E entry \in {e \in HELP_FILTERS : e.name \in Typing} : \E w \in Documented(entry) :
    Commit(setparam(store, [word |-> w, unique |-> FALSE]), Null)
PickMenu ==
  \E entry \in Menus : Commit(FoldLeft(setparam, store, MenuWords(entry)), Null)
unsetparam ==
  \E w \in store : Commit({x \in store : x.type # w.type}, Null)
BuildTopChart ==
  /\ chart' \in Fields
  /\ UNCHANGED <<store, clicked>>
ClickBar ==
  /\ chart # Null
  /\ \E h \in {x \in Hosts : Selected(store, x)} : \E label \in topvalues(chart, h) :
       /\ BarWords(chart, label) # <<>>
       /\ Commit(FoldLeft(setparam, store, BarWords(chart, label)),
                 [field |-> chart, label |-> label, under |-> store])

Next == TypeWord \/ PickMenu \/ unsetparam \/ BuildTopChart \/ ClickBar
Spec == Init /\ [][Next]_vars

-----------------------------------------------------------------------------
(* Properties.                                                              *)

\* The filter holds at most MaxWords words, and a bar was clicked on a chart.
TypeOK ==
  /\ Cardinality(store) <= MaxWords
  /\ chart \in Fields \cup {Null}
  /\ clicked # Null => clicked.field \in Fields /\ BarWords(clicked.field, clicked.label) # <<>>

\* The server takes every word that the help describes, a menu holds or a bar writes:
\* none is left unused, and none fails the request.
Understood == \A w \in store : flt_from_query(w).kind \notin {"unused", "error"}

\* A negated word filters out: the server does not drop its sign.
SignIsKept == \A w \in store : flt_from_query(w).kind = "filter" => flt_from_query(w).neg = w.neg

\* Whatever the title of an entry says can be typed, the help still shows once typed.
HelpFollows == \A w \in store : Completed(w)

\* A host has the label x of the field f, or as much of it as the words of its bar say.
\* Those of sshkey.bits are a type and a size, which two keys may have (graph.js:201),
\* and that of vulns.state and its like is the vulnerability, in any state (:257).
HasLabel(f, x, h) ==
  CASE f.base = "sshkey.bits" -> \A i \in {1, 2} : \E l \in topvalues(f, h) : l[i] = x[i]
    [] f.base = "vulns" -> \E l \in topvalues(f, h) : l[1] = x[1]
    [] OTHER -> x \in topvalues(f, h)

\* A host that the words of a bar select is one that the bar has counted, or that agrees
\* with what the bar wrote where that is less than its label.
SelectedAreCounted ==
  clicked # Null =>
    \A h \in Hosts : Selected(store, h) => HasLabel(clicked.field, clicked.label, h)

\* A host that a bar has counted is still there once the bar has been clicked.
CountedAreSelected ==
  clicked # Null =>
    \A h \in Hosts :
      (Selected(clicked.under, h) /\ clicked.label \in topvalues(clicked.field, h))
        => Selected(store, h)

=============================================================================
