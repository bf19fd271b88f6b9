---------------------------- MODULE ExamSettings ----------------------------
(***************************************************************************)
(* The settings of an exam, as pure operators: which hosts the browser     *)
(* may visit (proto/src/seb.rs), what goes into the exam's .seb file, the  *)
(* Config Key of a file and its container (proto/src/seb_file.rs).         *)
(*                                                                         *)
(* A host name is the sequence of its labels.  A line that somebody types, *)
(* and a URL, is a record: its scheme, or "" when it has none; whether it  *)
(* has user information; its port; its host name as typed, with stars,     *)
(* empty labels (leading and trailing dots) and capitals; its path.        *)
(* SHA-256 and the encryption are taken to be injective, so a hash is the  *)
(* tuple of what is hashed.                                                *)
(***************************************************************************)
EXTENDS Integers, Sequences, FiniteSets, SequencesExt

CONSTANTS
  Labels,      (* the well-formed labels of host names, in small letters     *)
  LowerCase,   (* the label in small letters of each label in capitals       *)
  MaxDomains,  (* MAX_DOMAINS                                                *)
  NoSalt       (* the salt of an exam saved before exams had one             *)

Bad   == <<>>
NoUrl == [scheme |-> "", user |-> FALSE, port |-> "", name |-> <<>>, path |-> <<>>]

Address ==
  [scheme : STRING, user : BOOLEAN, port : STRING, name : Seq(STRING), path : Seq(STRING)]

-----------------------------------------------------------------------------
(* Hosts.                                                                    *)

Lowered(l) == IF l \in DOMAIN LowerCase THEN LowerCase[l] ELSE l

(* The domain that a bare name stands for, without the stars before it and   *)
(* the dots around it, or Bad.                                               *)
BareDomain(name) ==
  LET starless == {i \in 1..Len(name) : \E j \in 1..i : name[j] # "*"}
      body     == {i \in starless : \E j, k \in starless : j <= i /\ i <= k /\ "" \notin {name[j], name[k]}}
      domain   == IF body = {} THEN Bad
                  ELSE LET first == Min(body)
                       IN  [i \in 1..Cardinality(body) |-> Lowered(name[first + i - 1])]
      valid    == /\ ToSet(domain) \subseteq Labels
                  /\ Len(domain) = 1 => domain = <<"localhost">>
  IN  IF valid THEN domain ELSE Bad

UrlHost(url) ==
  IF url.scheme \in {"http", "https"} /\ ~url.user /\ url.port # "bad"
  THEN BareDomain(url.name) ELSE Bad

NormalizeDomain(line) ==
  IF line.scheme # "" THEN UrlHost(line)
  ELSE IF line.user \/ line.port # "" \/ line.path # <<>> THEN Bad
  ELSE BareDomain(line.name)

(* The list typed into the form: normalised, and each domain once.           *)
Once(out, line) ==
  LET d == NormalizeDomain(line)
  IN  IF Contains(out, d) THEN out ELSE Append(out, d)

ParseDomainList(lines) == FoldLeft(Once, <<>>, lines)

ListAccepted(domains) == ~Contains(domains, Bad) /\ Len(domains) <= MaxDomains

Covered(d, by) == IsSuffix(by, d)

(* The entries of a sequence that have a rank, by increasing rank.           *)
Arranged(seq, rank) ==
  LET At(n) == CHOOSE k \in DOMAIN rank : Cardinality({j \in DOMAIN rank : rank[j] < rank[k]}) = n
  IN  [i \in 1..Cardinality(DOMAIN rank) |-> seq[At(i - 1)]]

(* Faulty variant: what the new domain covers is not taken out.                      *)
KeepAll(kept, d) == IF \E i \in DOMAIN kept : Covered(d, kept[i]) THEN kept ELSE Append(kept, d)

(* One domain of effective_domains: skipped when one kept before covers it,  *)
(* and else kept instead of those that it covers.                            *)
Keep(kept, d) ==
  IF \E i \in DOMAIN kept : Covered(d, kept[i]) THEN kept
  ELSE Append(Arranged(kept, [i \in {k \in DOMAIN kept : ~Covered(kept[k], d)} |-> i]), d)

(* The domains that a spec allows, or Bad.                                   *)
EffectiveDomains(spec) ==
  LET all == <<UrlHost(spec.start)>> \o spec.domains
  IN  IF Contains(all, Bad) THEN Bad ELSE FoldLeft(Keep, <<>>, all)

-----------------------------------------------------------------------------
(* The file.                                                                 *)

(* The page that the browser opens: the gate's when there is one, and then   *)
(* its host is allowed too.                                                  *)
Home(spec, gate) == IF gate # NoUrl THEN gate ELSE spec.start

WithGate(domains, gate) ==
  IF gate = NoUrl \/ \E i \in DOMAIN domains : Covered(UrlHost(gate), domains[i])
  THEN domains ELSE Append(domains, UrlHost(gate))

(* A rule is a dictionary of its own, and lets a domain and what is below it *)
(* through; settings are dictionaries too, kept in the order of insertion.   *)
Rule(domain) ==
  << <<"action", 1>>, <<"active", TRUE>>, <<"expression", domain>>, <<"regex", TRUE>> >>

FilterRules(spec, gate) ==
  LET domains == WithGate(EffectiveDomains(spec), gate)
  IN  [i \in DOMAIN domains |-> Rule(domains[i])]

(* Faulty variant: the salt is not among the settings.                       *)
SettingsUnsalted(spec, gate, salt) ==
  << <<"originatorVersion", "riscv-exam-env">>, <<"startURL", Home(spec, gate)>>,
     <<"URLFilterRules", FilterRules(spec, gate)>>, <<"allowQuit", spec.quit>> >>

(* The settings of a file; those that are the same in every file (lockdown,  *)
(* window) are left out.                                                     *)
Settings(spec, gate, salt) ==
     << <<"originatorVersion", "riscv-exam-env">>,
        <<"startURL", Home(spec, gate)>> >>
  \o (IF salt = NoSalt THEN <<>> ELSE << <<"examKeySalt", salt>> >>)
  \o << <<"URLFilterRules", FilterRules(spec, gate)>>,
        <<"allowQuit", spec.quit>> >>

(* The place of each key: their order ignores case.                          *)
KeyPlace ==
  [action |-> 1, active |-> 2, allowQuit |-> 3, examKeySalt |-> 4, expression |-> 5,
   originatorVersion |-> 6, regex |-> 7, startURL |-> 8, URLFilterRules |-> 9]

(* write_dict sorts a dictionary, and write_value the dictionaries in an     *)
(* array each by itself: the order of the array counts.                      *)
InKeyOrder(dict, kept) == Arranged(dict, [i \in kept |-> KeyPlace[dict[i][1]]])
WriteValue(entry) ==
  IF entry[1] = "URLFilterRules"
  THEN <<entry[1], [i \in DOMAIN entry[2] |-> InKeyOrder(entry[2][i], DOMAIN entry[2][i])]>>
  ELSE entry

(* originatorVersion does not count.                                         *)
Root(settings) == {i \in DOMAIN settings : settings[i][1] # "originatorVersion"}

(* Faulty variant: only the keys of the settings themselves are sorted.      *)
SebJsonTopLevel(settings) == InKeyOrder(settings, Root(settings))

(* The Config Key: the hash of the settings as sorted dictionaries.          *)
SebJson(settings) ==
  LET root == InKeyOrder(settings, Root(settings))
  IN  [i \in DOMAIN root |-> WriteValue(root[i])]

ConfigKey(settings) == SebJson(settings)

ConfigKeyHash(url, key) == <<url, key>>

(* The container, with or without a password, and what opens it.             *)
Encode(settings, password) == [lock |-> password, settings |-> settings]
Opens(container, typed)    == container.lock \in {"", typed}

=============================================================================
