------------------------------ MODULE DevMap ------------------------------
(***************************************************************************)
(* Which port a rank uses towards a ring neighbour on a channel: the table *)
(* that src/tools/gen_devmap.py makes of a measured topology, the two      *)
(* forms in which it is handed over (a string, a JSON file), and what the  *)
(* patched NCCL (src/patches/v5-netdev-configurable.patch) reads from them.*)
(***************************************************************************)
EXTENDS Integers, Sequences, FiniteSets, SequencesExt

CONSTANT Topologies   \* the topology documents that are tried

Ranks == 0..3
Devs == 0..3

VARIABLES
  topology,  \* [ring, edges]; an edge is [a, b, pa, pb]
  form,      \* how the table is handed over: "string", "file" or "none"
  verdict,   \* what validate said: "unread", "valid" or "invalid"
  env,       \* what the library finds: the string, the file or nothing
  table      \* the table the library uses, <<>> before it is loaded

vars == <<topology, form, verdict, env, table>>

Edges == ToSet(topology.edges)

-----------------------------------------------------------------------------
(***************************************************************************)
(* gen_devmap.py                                                           *)
(***************************************************************************)

IsPair(p) == Len(p) = 2 /\ p[1] \in Devs /\ p[2] \in Devs /\ p[1] # p[2]

Ends(e) == {e.a, e.b}

RingPairs == {{topology.ring[i], topology.ring[(i % 4) + 1]} : i \in 1..4}

\* The ports that rank r uses on its edges.
PortsOf(r) == FlattenSeq([i \in DOMAIN topology.edges |->
  LET e == topology.edges[i] IN
  (IF e.a = r THEN e.pa ELSE <<>>) \o (IF e.b = r THEN e.pb ELSE <<>>)])

\* validate: the edges are the ring, each once, and every rank uses each of its
\* four ports exactly once.
Valid ==
  /\ Len(topology.ring) = 4 /\ ToSet(topology.ring) = Ranks
  /\ Len(topology.edges) = 4
  /\ \A e \in Edges : Ends(e) \subseteq Ranks /\ e.a # e.b /\ IsPair(e.pa) /\ IsPair(e.pb)
  /\ {Ends(e) : e \in Edges} = RingPairs
  /\ \A r \in Ranks : Len(PortsOf(r)) = 4 /\ ToSet(PortsOf(r)) = Devs

\* build: the ports of rank r towards rank p, for even and odd channels; <<>>
\* when they are no neighbours.
Build ==
  [r \in Ranks |-> [p \in Ranks |->
     LET e == CHOOSE x \in Edges : Ends(x) = {r, p} IN
     IF \A x \in Edges : Ends(x) # {r, p} THEN <<>> ELSE IF e.a = r THEN e.pa ELSE e.pb]]

BuiltinDefault ==
  << << <<>>, <<1, 3>>, <<>>, <<0, 2>> >>, << <<1, 3>>, <<>>, <<0, 2>>, <<>> >>,
     << <<>>, <<0, 2>>, <<>>, <<1, 3>> >>, << <<0, 2>>, <<>>, <<1, 3>>, <<>> >> >>

\* A rank's pairs in the order of the peers.
Pairs(m, r) == FlattenSeq([i \in 1..4 |->
  IF m[r][i - 1] = <<>> THEN <<>> ELSE << <<"pair", i - 1, m[r][i - 1]>> >>])

Separated(s) == FlattenSeq([i \in DOMAIN s |->
  IF i = 1 THEN <<s[i]>> ELSE << <<"semicolon">>, s[i] >>])

\* map_to_devmap_string: a semicolon stands between pairs and between ranks.
DevMapString(m) ==
  FlattenSeq([i \in 1..4 |->
    (IF i = 1 THEN <<>> ELSE << <<"semicolon">> >>) \o << <<"rank", i - 1>> >>
      \o Separated(Pairs(m, i - 1))])

\* map_to_json, written with indent=2: a list is spread over lines.
IndentedList(p) ==
  <<"open", "newline", p[1], "comma", "newline", p[2], "newline", "close">>

DevMapFile(m) ==
  [r \in Ranks |-> [p \in {q \in Ranks : m[r][q] # <<>>} |-> IndentedList(m[r][p])]]

-----------------------------------------------------------------------------
(***************************************************************************)
(* The library.  A table gives, for each rank and listed peer, the two     *)
(* ports.                                                                  *)
(***************************************************************************)

\* ncclRingMapBuiltins: <<0, 0>> stands where two ranks are no neighbours.
LibraryDefault ==
  LET def == << << <<0, 0>>, <<1, 3>>, <<0, 0>>, <<0, 2>> >>,
                << <<1, 3>>, <<0, 0>>, <<0, 2>>, <<0, 0>> >>,
                << <<0, 0>>, <<0, 2>>, <<0, 0>>, <<1, 3>> >>,
                << <<0, 2>>, <<0, 0>>, <<1, 3>>, <<0, 0>> >> >>
  IN  [r \in Ranks |-> [p \in {q \in Ranks \ {r} : def[r + 1][q + 1] # <<0, 0>>} |->
         def[r + 1][p + 1]]]

\* The outcome of a parser that gave up: nothing in it is used.
Malformed == [r \in Ranks |-> <<>>]

\* ncclRingMapParseString: a rank, a pair, and after every ";" the next rank; all
\* four ranks, each once.
ParseString(s) ==
  LET n == (Len(s) + 1) \div 3
      Rank(k) == s[3 * k - 2][2]
  IN
  IF /\ Len(s) \in {3 * n - 1, 3 * n}
     /\ \A k \in 1..n : /\ s[3 * k - 2][1] = "rank" /\ s[3 * k - 1][1] = "pair"
                        /\ s[3 * k - 1][2] # Rank(k)
                        /\ 3 * k \in DOMAIN s => s[3 * k] = <<"semicolon">>
     /\ n = 4 /\ {Rank(k) : k \in 1..n} = Ranks
  THEN [r \in Ranks |-> LET k == CHOOSE k \in 1..n : Rank(k) = r
                        IN  [p \in {s[3 * k - 1][2]} |-> s[3 * k - 1][3]]]
  ELSE Malformed

\* ncclRingMapParseFile: a list is "[", a digit, ",", a digit, "]", nothing else.
ParseFile(f) ==
  IF \A r \in Ranks : \A p \in DOMAIN f[r] :
       Len(f[r][p]) = 5 /\ f[r][p][3] = "comma" /\ p # r
  THEN [r \in Ranks |-> [p \in DOMAIN f[r] |-> <<f[r][p][2], f[r][p][4]>>]]
  ELSE Malformed

\* Variant for a mutant: what could not be parsed is used as it is.
LoadHalf ==
  IF form = "string" THEN ParseString(env)
  ELSE IF form = "file" THEN ParseFile(env)
  ELSE LibraryDefault

\* ncclRingMapLoad: what is malformed is replaced by the default, with a warning.
LoadMap ==
  IF form = "string" /\ ParseString(env) # Malformed THEN ParseString(env)
  ELSE IF form = "file" /\ ParseFile(env) # Malformed THEN ParseFile(env)
  ELSE LibraryDefault

-----------------------------------------------------------------------------
Init ==
  /\ topology \in Topologies
  /\ form \in {"string", "file", "none"}
  /\ verdict = "unread"
  /\ env = <<>>
  /\ table = <<>>

\* main of gen_devmap: nothing is printed for a topology that is not valid.
Generate ==
  /\ verdict = "unread"
  /\ verdict' = IF Valid THEN "valid" ELSE "invalid"
  /\ env' = IF ~Valid \/ form = "none" THEN <<>>
            ELSE IF form = "string" THEN DevMapString(Build) ELSE DevMapFile(Build)
  /\ UNCHANGED <<topology, form, table>>

\* The first connection of the library loads the table.
Load ==
  /\ verdict = "valid" /\ table = <<>>
  /\ table' = LoadMap
  /\ UNCHANGED <<topology, form, verdict, env>>

Stop == (verdict = "invalid" \/ table # <<>>) /\ UNCHANGED vars

Next == Generate \/ Load \/ Stop

Spec == Init /\ [][Next]_vars

-----------------------------------------------------------------------------
(***************************************************************************)
(* Properties.                                                             *)
(***************************************************************************)

\* The table that a map makes.
AsTable(m) == [r \in Ranks |-> [p \in {q \in Ranks : m[r][q] # <<>>} |-> m[r][p]]]
DefaultTable == AsTable([r \in Ranks |-> [p \in Ranks |-> BuiltinDefault[r + 1][p + 1]]])

\* The library never uses half of a table: it has the generated one or the table
\* that gen_devmap --default prints.
TableIsWhole == table # <<>> => table \in {AsTable(Build), DefaultTable}

\* A table that gen_devmap made and that the operator handed over is the one the
\* library uses. It never is: both forms are malformed to the library.
GeneratedTableInUse ==
  table # <<>> /\ form # "none" => table = AsTable(Build)
=============================================================================
