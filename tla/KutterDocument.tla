---------------------------- MODULE KutterDocument ----------------------------
(***************************************************************************)
(* The words of a Kutter document: how src/ui/kutter_studio.kf encodes and  *)
(* seals one, how apps/web_alpha/kutter_editor.js decodes it and checks its *)
(* seal, and the two documents the page makes itself, a blank arena and a   *)
(* copy of a saved project.  Four versions of the layout are read: 1 has    *)
(* one scale per node, 2 three and a colour, 3 an asset, 4 the behaviour    *)
(* program of the enemies (src/core/behavior_program.kf).                   *)
(***************************************************************************)
EXTENDS Integers, Sequences, FiniteSets, SequencesExt

CONSTANTS Coordinates,   \* of nodes, negative ones among them
          ProjectIds,    \* document ids the page draws
          Programs       \* behaviour programs the server's documents hold

VARIABLES dDoc,      \* the document that is written
          dVersion,  \* the version of its words
          dWords     \* the words, <<>> before

dVars == <<dDoc, dVersion, dWords>>

-----------------------------------------------------------------------------
(* The server. *)

Magic == 126375140
White == 16777215

\* mix; the remainder is never negative
Modulus == 1000003
MixIn(state, value) == (state * 31 + (value % Modulus)) % Modulus
\* the words in their order, from a start; by halves, which keeps the recursion shallow
MixAll(start, values) ==
  LET mixed[state \in 0 .. Modulus - 1, i \in 1 .. Len(values) + 1, j \in 0 .. Len(values)] ==
        IF j < i THEN state
        ELSE IF i = j THEN MixIn(state, values[i])
        ELSE LET m == (i + j) \div 2 IN mixed[mixed[state, i, m], m + 1, j]
  IN mixed[start, 1, Len(values)]
SealFrom(start, values) ==
  LET sum == MixAll(start, values) IN IF sum > 0 THEN sum ELSE 1
SealOf(values) == SealFrom(137, values)

\* Mutant: zero is encoded as minus one is.
EncodeSignedFromZero(value) == IF value <= 0 THEN -value * 2 + 1 ELSE value * 2

EncodeSigned(value) == IF value < 0 THEN -value * 2 - 1 ELSE value * 2
DecodeSigned(word) == IF word < 0 \/ word % 2 = 0 THEN word \div 2 ELSE -(word \div 2) - 1

\* The fields of a node that a version holds; older ones have one scale, no colour
\* and no asset.
Upright(n, v) ==
  [f \in DOMAIN n |-> IF f \in {"scaleY", "scaleZ"} /\ v < 2 THEN n.scaleX
                     ELSE IF f = "color" /\ v < 2 THEN White
                     ELSE IF f = "asset" /\ v < 3 THEN 0 ELSE n[f]]

\* calculateChecksum, and legacyV1Checksum to legacyV3Checksum with what they hold
Mixed(d, v) ==
  <<v, d.ns, d.project, d.revision, d.generation, Len(d.nodes)>>
  \o FlattenSeq([i \in DOMAIN d.nodes |-> LET n == d.nodes[i] IN
       <<n.id, n.parent, n.kind, n.x, n.y, n.z, n.rotation, n.scaleX>>
       \o (IF v >= 2 THEN <<n.scaleY, n.scaleZ, n.color>> ELSE <<>>)
       \o (IF v >= 3 THEN <<n.asset>> ELSE <<>>)])
  \o <<Len(d.assets)>> \o FlattenSeq(d.assets)
  \o (IF v = 4 THEN <<Len(d.program)>> \o d.program ELSE <<>>)

\* encode, of version 4, and what the servers before it wrote
Encoded(d, v) ==
  LET nodes == FlattenSeq([i \in DOMAIN d.nodes |-> LET n == d.nodes[i] IN
        <<n.id, n.parent, n.kind, EncodeSigned(n.x), EncodeSigned(n.y), EncodeSigned(n.z),
          EncodeSigned(n.rotation), n.scaleX>>
        \o (IF v >= 2 THEN <<n.scaleY, n.scaleZ, n.color, 0>> ELSE <<>>)
        \o (IF v >= 3 THEN <<n.asset>> ELSE <<>>)])
      program == IF v = 4 THEN d.program ELSE <<>>
      body == nodes \o FlattenSeq(d.assets) \o program
  IN <<Magic, v, 11 + Len(body), SealOf(Mixed(d, v)), d.ns, d.project, d.revision,
       Len(d.nodes), Len(d.assets), d.generation, Len(program)>> \o body

-----------------------------------------------------------------------------
(* A behaviour program: a tree whose selector tries its branches in order.  A branch is  *)
(* an action, or a sequence of conditions and an action.  Its words hold the tree, and   *)
(* the rules that it compiles to.                                                        *)

MaxNumber == 1000000
Numbers == 1 .. MaxNumber

Selector == 1
Sequence == 2
Conditions == 3 .. 5   \* a player is visible, within perception, within attack range
Actions == 6 .. 9      \* attack, chase, investigate, idle

Triples(words, at, n) == [i \in 1 .. n |-> SubSeq(words, at + 3 * i - 2, at + 3 * i)]
\* <<id, kind>>, <<parent, child, order>> and <<node, conditions, action>>
ProgramNodes(p) == [i \in 1 .. p[6] |-> SubSeq(p, 9 + 2 * i, 10 + 2 * i)]
ProgramEdges(p) == Triples(p, 10 + 2 * p[6], p[7])
ProgramRules(p) == Triples(p, 10 + 2 * p[6] + 3 * p[7], p[8])

KindsOf(p) ==
  LET nodes == ToSet(ProgramNodes(p))
  IN [id \in {n[1] : n \in nodes} |-> (CHOOSE n \in nodes : n[1] = id)[2]]

Below(edges, id) == {e \in edges : e[1] = id}
Child(edges, id, order) == (CHOOSE e \in Below(edges, id) : e[3] = order)[2]

\* compileRules: one root and no other selector, one parent for everything else,
\* children in orders that leave no gap
TreeStands(kinds, edges) ==
  /\ \E root \in DOMAIN kinds :
       \A id \in DOMAIN kinds :
         LET above == {e \in edges : e[2] = id} IN
         /\ Cardinality(above) = IF id = root THEN 0 ELSE 1
         /\ kinds[id] = Selector <=> id = root
  /\ \A id \in DOMAIN kinds :
       LET n == Cardinality(Below(edges, id)) IN
       /\ \A order \in 1 .. n : Cardinality({e \in Below(edges, id) : e[3] = order}) = 1
       /\ CASE kinds[id] = Selector -> n >= 1 [] kinds[id] = Sequence -> n >= 2 [] OTHER -> n = 0

\* calculateTopology: next is the smallest node that none of those left leads to; on a
\* cycle some are never reached
Topological(kinds, edges) ==
  LET order[left \in SUBSET DOMAIN kinds] ==
        LET free == {id \in left : \A e \in edges : e[2] = id => e[1] \notin left}
        IN IF free = {} THEN <<>> ELSE <<Min(free)>> \o order[left \ {Min(free)}]
  IN order[DOMAIN kinds]

\* compileBranch: the rule of a branch, and when it has one
RuleOf(kinds, edges, id) ==
  LET n == Cardinality(Below(edges, id))
      child(k) == Child(edges, id, k)
  IN IF kinds[id] \in Actions THEN [node |-> id, conditions |-> {}, action |-> kinds[id]]
     ELSE [node |-> child(n), conditions |-> {kinds[child(k)] : k \in 1 .. n - 1},
           action |-> kinds[child(n)]]
BranchStands(kinds, edges, id) ==
  LET rule == RuleOf(kinds, edges, id) IN
  /\ kinds[id] \in Actions \cup {Sequence} /\ rule.action \in Actions
  /\ rule.conditions \subseteq Conditions
  /\ kinds[id] = Sequence =>
       Cardinality(rule.conditions) = Cardinality(Below(edges, id)) - 1  \* none twice
\* validRule
RuleStands(rule) ==
  CASE rule.action = 6 -> {3, 5} \subseteq rule.conditions
    [] rule.action = 7 -> {3, 4} \subseteq rule.conditions
    [] OTHER -> rule.conditions = {}
RuleWords(rule) ==
  LET bit(kind, b) == IF kind \in rule.conditions THEN b ELSE 0
  IN <<rule.node, bit(3, 1) + bit(4, 2) + bit(5, 4), rule.action>>

Branches(p) ==
  LET kinds == KindsOf(p)
      edges == ToSet(ProgramEdges(p))
      root == CHOOSE id \in DOMAIN kinds : kinds[id] = Selector
  IN [k \in 1 .. Cardinality(Below(edges, root)) |-> Child(edges, root, k)]
\* the rules that are played
Compiled(p) ==
  [k \in DOMAIN Branches(p) |-> RuleOf(KindsOf(p), ToSet(ProgramEdges(p)), Branches(p)[k])]

\* sortCanonical and encode: the same program, its nodes and its edges in order
Recoded(p) ==
  LET before(a, b) == \E i \in DOMAIN a : a[i] < b[i] /\ \A j \in 1 .. i - 1 : a[j] = b[j]
  IN SubSeq(p, 1, 10) \o FlattenSeq(SortSeq(ProgramNodes(p), before))
     \o FlattenSeq(SortSeq(ProgramEdges(p), before)) \o FlattenSeq(ProgramRules(p))

\* calculateChecksum of the graph, and of the program over it
GraphSeal(p) ==
  SealFrom(17, <<1, p[3], p[4], 1, 0, 0, p[6], p[7], p[6]>>
               \o SubSeq(Recoded(p), 11, 10 + 2 * p[6] + 3 * p[7])
               \o Topological(KindsOf(p), ToSet(ProgramEdges(p))))
ProgramSeal(p) ==
  SealFrom(17, <<1, GraphSeal(p), p[5], p[8]>> \o FlattenSeq(ProgramRules(p)))

\* What decode asks of the header,
ProgramHeader(p) ==
  /\ Len(p) \in 18 .. 776 /\ p[1] = 1111839304 /\ p[2] = 1
  /\ p[3] \in Numbers /\ p[4] \in Numbers /\ p[5] \in 1 .. 4096
  /\ p[6] \in 1 .. 64 /\ p[7] \in 1 .. 128 /\ p[8] \in 1 .. 64
  /\ p[10] = Len(p) /\ Len(p) = 10 + p[6] * 2 + p[7] * 3 + p[8] * 3
\* addNode, addChild and seal of the graph,
GraphStands(p) ==
  LET kinds == KindsOf(p)
      edges == ToSet(ProgramEdges(p))
  IN /\ DOMAIN kinds \subseteq Numbers /\ Cardinality(DOMAIN kinds) = p[6]
     /\ \A id \in DOMAIN kinds : kinds[id] \in {Selector, Sequence} \cup Conditions \cup Actions
     /\ Cardinality(edges) = p[7]
     /\ \A e \in edges : /\ e[1] \in DOMAIN kinds /\ e[2] \in DOMAIN kinds \ {e[1]}
                         /\ e[3] \in Numbers
     /\ Len(Topological(kinds, edges)) = p[6]
     /\ TreeStands(kinds, edges)
\* compileRules, and the comparison with the words: the last rule always applies, and
\* trying them all stays within the budget.
RulesStand(p) ==
  LET rules == Compiled(p)
      work(rule, sum) == sum + 1 + Cardinality(rule.conditions)
  IN /\ \A k \in DOMAIN rules :
          /\ BranchStands(KindsOf(p), ToSet(ProgramEdges(p)), Branches(p)[k])
          /\ RuleStands(rules[k])
     /\ rules[Len(rules)].conditions = {} /\ FoldRight(work, rules, 0) <= p[5]
     /\ ProgramRules(p) = [k \in DOMAIN rules |-> RuleWords(rules[k])]
\* setBehaviorProgram: decode, validate and encode of BoundedBehaviorProgram(64, 128, 64)
ProgramTaken(p) ==
  ProgramHeader(p) /\ GraphStands(p) /\ RulesStand(p) /\ p[9] = ProgramSeal(p)

\* encode
Compose(revision, budget, nodes, edges, rules) ==
  LET body == FlattenSeq(nodes) \o FlattenSeq(edges) \o FlattenSeq(rules)
      words(seal) == <<1111839304, 1, 1, revision, budget, Len(nodes), Len(edges), Len(rules),
                       seal, 10 + Len(body)>> \o body
  IN words(ProgramSeal(words(0)))

\* setBehaviorCards: a sequence per card, 1 to attack and 2 to chase, then investigate.
Program(cards, revision) ==
  LET nodes == <<<<1, Selector>>>>
               \o FlattenSeq([i \in DOMAIN cards |-> LET c == cards[i] IN
                    <<<<10 * c, Sequence>>, <<10 * c + 1, 3>>,
                      <<10 * c + 2, IF c = 1 THEN 5 ELSE 4>>, <<10 * c + 3, 5 + c>>>>])
               \o <<<<30, 8>>>>
      edges == [i \in DOMAIN cards |-> <<1, 10 * cards[i], i>>] \o <<<<1, 30, Len(cards) + 1>>>>
               \o FlattenSeq([i \in DOMAIN cards |-> [j \in 1 .. 3 |->
                    <<10 * cards[i], 10 * cards[i] + j, j>>]])
      rules == [i \in DOMAIN cards |-> IF cards[i] = 1 THEN <<13, 5, 6>> ELSE <<23, 3, 7>>]
               \o <<<<30, 0, 8>>>>
  IN Compose(revision, 8, nodes, edges, rules)

\* The cards the server's enemies play; those of configureDefaultEnemyProgram without one.
ServerCards(program) ==
  IF program = <<>> THEN {1, 2}
  ELSE {card \in {1, 2} : \E k \in DOMAIN Compiled(program) :
                            Compiled(program)[k].action = 5 + card}

MaxTurn == 360000   \* thousandths of a degree

ASSUME DocumentAssumption ==
  /\ \A x \in Coordinates : x \in Int /\ -MaxTurn <= x /\ x <= MaxTurn
  /\ ProjectIds \subseteq Numbers
  \* what setBehaviorProgram keeps: the words that encode writes of a decoded program
  /\ \A p \in Programs : p \in Seq(Int) /\ ProgramTaken(p) /\ Recoded(p) = p

-----------------------------------------------------------------------------
(* Decoding. *)

Stride(v) == CASE v = 1 -> 8 [] v = 2 -> 12 [] OTHER -> 13

\* decodeSigned of the page
PageSigned(word) == IF word % 2 = 0 THEN word \div 2 ELSE -(word \div 2) - 1

\* The document of words whose layout holds, as the page or the server reads it.
Decoded(words, reader) ==
  LET signed(word) == IF reader = "page" THEN PageSigned(word) ELSE DecodeSigned(word)
      v == words[2]
      s == Stride(v)
      node(c) == Upright(
        [id |-> words[c], parent |-> words[c + 1], kind |-> words[c + 2],
         x |-> signed(words[c + 3]), y |-> signed(words[c + 4]), z |-> signed(words[c + 5]),
         rotation |-> signed(words[c + 6]), scaleX |-> words[c + 7],
         scaleY |-> IF v >= 2 THEN words[c + 8] ELSE 0,
         scaleZ |-> IF v >= 2 THEN words[c + 9] ELSE 0,
         color |-> IF v >= 2 THEN words[c + 10] ELSE 0,
         asset |-> IF v >= 3 THEN words[c + 12] ELSE 0], v)
      assetsAt == 12 + words[8] * s
      programAt == assetsAt + words[9] * 5
  IN [ns |-> words[5], project |-> words[6], revision |-> words[7], generation |-> words[10],
      nodes |-> [i \in 1 .. words[8] |-> node(12 + (i - 1) * s)],
      assets |-> [i \in 1 .. words[9] |->
                   SubSeq(words, assetsAt + 5 * (i - 1), assetsAt + 5 * i - 1)],
      program |-> SubSeq(words, programAt, IF reader = "page" THEN Len(words)
                                           ELSE programAt + words[11] - 1)]

Positions == -MaxNumber .. MaxNumber
Turns == -MaxTurn .. MaxTurn
Colors == 0 .. White
AssetTokens == 0 .. MaxNumber
\* configure, addNode with what is set after it, setNodeParent and addAsset
NodeTaken(n) ==
  /\ n.id \in Numbers /\ n.kind \in Numbers
  /\ \A f \in {"x", "y", "z"} : n[f] \in Positions
  /\ n.rotation \in Turns
  /\ \A f \in {"scaleX", "scaleY", "scaleZ"} : n[f] \in Numbers
  /\ n.color \in Colors /\ n.asset \in AssetTokens
\* each parent is a node, and among any nodes one has its parent elsewhere: no cycle
ParentsTaken(nodes) ==
  /\ \A i \in DOMAIN nodes :
       nodes[i].parent > 0 => \E j \in DOMAIN nodes : nodes[j].id = nodes[i].parent
  /\ \A S \in SUBSET DOMAIN nodes :
       S # {} => \E i \in S : \A j \in S : nodes[j].id # nodes[i].parent
AssetTaken(a) ==
  /\ \A i \in {1, 2, 5} : a[i] \in Numbers
  /\ a[3] \in 1 .. 4 /\ a[4] \in 1 .. Modulus - 1
StudioTakes(d) ==
  /\ d.ns \in Numbers /\ d.project \in Numbers /\ d.revision \in Numbers
  /\ \A i \in DOMAIN d.nodes : NodeTaken(d.nodes[i])
  /\ \A i, j \in DOMAIN d.nodes : i < j => d.nodes[i].id < d.nodes[j].id
  /\ ParentsTaken(d.nodes)
  /\ \A i \in DOMAIN d.assets : AssetTaken(d.assets[i])
  /\ \A i, j \in DOMAIN d.assets : i < j => d.assets[i][1] < d.assets[j][1]
  /\ d.program # <<>> => ProgramTaken(d.program)

\* What the studio then holds: a parent below 0 is none, the program is encoded anew.
Adopted(d) ==
  [ns |-> d.ns, project |-> d.project, revision |-> d.revision, generation |-> d.generation,
   nodes |-> [i \in DOMAIN d.nodes |->
               [d.nodes[i] EXCEPT !.parent = IF @ > 0 THEN @ ELSE 0]],
   assets |-> d.assets,
   program |-> IF d.program = <<>> THEN <<>> ELSE Recoded(d.program)]

\* decodeDocumentWords: its header, the words it reserves, every part, and the seal, which
\* version 4 has over what the studio holds.  The comparison of the length with what the
\* counts say (636-637) has an empty body and refuses nothing.
ServerAccepts(words) ==
  LET d == Decoded(words, "server")
      v == words[2]
  IN /\ Len(words) >= 11 /\ words[1] = Magic /\ v \in 1 .. 4
     /\ words[3] = Len(words) /\ Len(words) <= 11 + 64 * 13 + 32 * 5 + 776
     /\ \A i \in {4, 5, 6, 7, 8, 10} : words[i] > 0
     /\ words[8] <= 64 /\ words[9] \in 0 .. 32
     /\ words[11] = 0 \/ (v = 4 /\ words[11] \in 18 .. 776)
     /\ v >= 2 => \A i \in 1 .. words[8] : words[11 + (i - 1) * Stride(v) + 12] = 0
     /\ StudioTakes(d)
     /\ words[4] = SealOf(Mixed(IF v = 4 THEN Adopted(d) ELSE d, v))

\* decodeDocument, and the checks that throw
PageDecoded(words) == Decoded(words, "page")
PageAccepts(words) ==
  LET v == words[2]
      program == PageDecoded(words).program
  IN /\ words[1] = Magic /\ v \in 1 .. 4 /\ words[8] \in 1 .. 64 /\ words[9] \in 0 .. 32
     /\ (words[11] = 0 \/ (v = 4 /\ words[11] \in 18 .. 776))
     /\ words[3] = Len(words)
     /\ Len(words) = 11 + words[8] * Stride(v) + words[9] * 5 + words[11]
     /\ program # <<>> =>
          /\ program[1] = 1111839304 /\ program[2] = 1
          /\ program[6] \in 1 .. 64 /\ program[7] \in 1 .. 128 /\ program[8] \in 1 .. 64
          /\ program[10] = Len(program)
          /\ Len(program) = 10 + program[6] * 2 + program[7] * 3 + program[8] * 3
          /\ \A i \in 1 .. program[8] :
               program[10 + program[6] * 2 + program[7] * 3 + 3 * i] \in 6 .. 9

\* behaviorCards: the cards a program plays
PageCards(program) ==
  LET rules == 10 + program[6] * 2 + program[7] * 3
      actions == {program[rules + 3 * i] : i \in 1 .. program[8]}
  IN IF program = <<>> THEN {1, 2}
     ELSE {card \in {1, 2} : (IF card = 1 THEN 6 ELSE 7) \in actions}

\* What the page mixes of a node.
PageMixed(n, v) ==
  <<n.id, n.parent, n.kind, n.x, n.y, n.z, n.rotation, n.scaleX>>
  \o (IF v >= 2 THEN <<n.scaleY, n.scaleZ, n.color>> ELSE <<>>)
  \o (IF v >= 3 THEN <<n.asset>> ELSE <<>>)

\* calculateDocumentChecksum; a reserved word that is not 0 is never sealed
PageChecksum(words) ==
  LET v == words[2]
      d == PageDecoded(words)
      behaviorAt == 12 + Len(d.nodes) * Stride(v) + Len(d.assets) * 5
  IN IF v >= 2 /\ \E i \in DOMAIN d.nodes : words[11 + (i - 1) * Stride(v) + 12] # 0 THEN -1
     ELSE SealOf(<<v, words[5], words[6], words[7], words[10], Len(d.nodes)>>
            \o FlattenSeq([i \in DOMAIN d.nodes |-> PageMixed(d.nodes[i], v)])
            \o <<Len(d.assets)>> \o FlattenSeq(d.assets)
            \o (IF v = 4 THEN <<words[11]>> \o SubSeq(words, behaviorAt, behaviorAt + words[11] - 1)
                ELSE <<>>))

-----------------------------------------------------------------------------
(* The documents of the page. *)

\* blankArenaDocument
BlankArena(ns, project) ==
  LET node == <<1, 0, 3, 0, 0, 0, 0, 1000, 1000, 1000, White, 0, 0>>
      fields == <<3, ns, project, 1, 1, 1, 1, 0, 3, 0, 0, 0, 0, 1000, 1000, 1000, White, 0, 0>>
  IN <<Magic, 3, 24, SealOf(fields), ns, project, 1, 1, 0, 1, 0>> \o node

\* Mutant: the copy is sealed before its revision is reset.
DuplicateSealedEarly(words, project) ==
  LET renamed == [words EXCEPT ![6] = project]
  IN [renamed EXCEPT ![7] = 1, ![10] = 1, ![4] = PageChecksum(renamed)]

\* duplicateProject
Duplicate(words, project) ==
  LET renamed == [i \in DOMAIN words |-> IF i = 6 THEN project
                                         ELSE IF i \in {7, 10} THEN 1 ELSE words[i]]
  IN [renamed EXCEPT ![4] = PageChecksum(renamed)]

-----------------------------------------------------------------------------

DNodes == {[id |-> 1, parent |-> 0, kind |-> 2, x |-> x, y |-> 0, z |-> z, rotation |-> -x,
            scaleX |-> 1000, scaleY |-> 500, scaleZ |-> 2000, color |-> c, asset |-> a] :
           x, z \in Coordinates, c \in {0, White}, a \in {0, 7}}
Group == [id |-> 5, parent |-> 1, kind |-> 9, x |-> 0, y |-> -25, z |-> 1, rotation |-> 90,
          scaleX |-> 1, scaleY |-> 1, scaleZ |-> 1000000, color |-> 1, asset |-> 1000000]
Asset == <<4, 1, 1, 999999, 1>>

\* A document a server may hold, with one or two nodes, an asset or none, and a program
\* or none; older versions have no program.
DocumentInit ==
  /\ dVersion \in 1 .. 4
  /\ \E n \in DNodes, two, asset \in BOOLEAN, program \in {<<>>} \cup Programs :
       LET nodes == IF two THEN <<n, Group>> ELSE <<n>> IN
       dDoc = [ns |-> 1, project |-> 9, revision |-> 3, generation |-> 4,
               nodes |-> [i \in DOMAIN nodes |-> Upright(nodes[i], dVersion)],
               assets |-> IF asset THEN <<Asset>> ELSE <<>>,
               program |-> IF dVersion = 4 THEN program ELSE <<>>]
  /\ dWords = <<>>

WriteDocument == dWords = <<>> /\ dWords' = Encoded(dDoc, dVersion)

\* project-new and project-duplicate
NewArena == dWords # <<>> /\ \E p \in ProjectIds : dWords' = BlankArena(dDoc.ns, p)
CopyProject == dWords # <<>> /\ \E p \in ProjectIds : dWords' = Duplicate(dWords, p)

DocumentNext ==
  /\ WriteDocument \/ NewArena \/ CopyProject
  /\ UNCHANGED <<dDoc, dVersion>>

DocumentSpec == DocumentInit /\ [][DocumentNext]_dVars

-----------------------------------------------------------------------------
(* Properties. *)

\* The page shows the document as the server wrote it, whatever its version, and a
\* copy of it has the same nodes and assets; the cards it shows are those whose rules
\* the server plays, which it compiles from the tree and not from the words of the rules.
DocumentReadsBack == dWords # <<>> =>
  \/ dWords = BlankArena(dDoc.ns, dWords[6])
  \/ LET d == PageDecoded(dWords)
     IN /\ d.nodes = dDoc.nodes /\ d.assets = dDoc.assets
        /\ PageCards(d.program) = ServerCards(dDoc.program)

\* Every document of the server and of the page is one that both accept: a project
\* that was created, copied or saved here can be loaded into the shared editor and
\* restored from a backup of the library.
SealHolds == dWords # <<>> =>
  PageAccepts(dWords) /\ PageChecksum(dWords) = dWords[4] /\ ServerAccepts(dWords)

\* A document means the same everywhere and is accepted everywhere.
DocumentInv == DocumentReadsBack /\ SealHolds
=============================================================================
