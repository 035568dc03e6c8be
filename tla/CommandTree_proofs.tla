-------------------------- MODULE CommandTree_proofs --------------------------
(***************************************************************************)
(* What parse_command accepts, for every line a client can send.           *)
(***************************************************************************)
EXTENDS CommandTree, SequenceTheorems, TLAPS

Levels ==
  {"first", "filter", "interface", "interface2", "service", "service2",
   "service_sync"}

\* What server.h's tables have in common: an inner entry leads to a table, a
\* COMPOUND entry is an inner one and a NON entry a leaf.
LEMMA TableFacts ==
  ASSUME NEW l \in DOMAIN Table, NEW m \in Table[l]
  PROVE  /\ m.next \in DOMAIN Table \cup {NULL}
         /\ m.type = "COMPOUND" => m.next # NULL
         /\ m.type = "NON" => m.next = NULL
<1>1. DOMAIN Table = Levels
  BY DEF Table, Levels
<1>2. \A x \in Levels : x # NULL
  BY <1>1, NullAssumption
<1>3. /\ Table["first"] =
            Inner({"filter"}, "COMPOUND", "filter") \cup
            Inner({"interface"}, "COMPOUND", "interface") \cup
            Inner({"service"}, "COMPOUND", "service")
      /\ Table["filter"] =
            Leaves({"reload", "reconfigure", "restart", "sync"}, "NON")
      /\ Table["interface"] =
            Inner({"all", "linkup"}, "STRING", "interface2") \cup
            Leaves({"reload", "reconfigure", "restart", "carpmaster", "carpbackup"}, "IFNAME") \cup
            Leaves({"newip", "newipv6"}, "STRING") \cup
            Leaves({"sync"}, "NON")
      /\ Table["interface2"] =
            Leaves({"reload"}, "NON") \cup Leaves({"start", "stop"}, "IFNAME")
      /\ Table["service"] =
            Inner({"reload", "reconfigure", "restart"}, "STRING", "service2") \cup
            Inner({"sync"}, "STRING", "service_sync")
      /\ Table["service2"] =
            Leaves({"all", "dns", "ipsecdns", "routedns", "dyndnsall", "ntpd",
                    "packages", "sshd", "webgui"}, "NON") \cup
            Leaves({"openvpn", "dyndns"}, "STRING")
      /\ Table["service_sync"] = Leaves({"vouchers"}, "NON")
  BY DEF Table
<1>4. \/ \E w, t : m \in Leaves(w, t) /\ t # "COMPOUND"
      \/ \E w, t, n : m \in Inner(w, t, n) /\ t # "NON" /\ n \in Levels
  <2>1. CASE l = "first"
    BY <1>3, <2>1 DEF Levels
  <2>2. CASE l = "filter"
    BY <1>3, <2>2
  <2>3. CASE l = "interface"
    BY <1>3, <2>3 DEF Levels
  <2>4. CASE l = "interface2"
    BY <1>3, <2>4
  <2>5. CASE l = "service"
    BY <1>3, <2>5 DEF Levels
  <2>6. CASE l = "service2"
    BY <1>3, <2>6
  <2>7. CASE l = "service_sync"
    BY <1>3, <2>7
  <2> QED
    BY <1>1, <2>1, <2>2, <2>3, <2>4, <2>5, <2>6, <2>7 DEF Levels
<1>5. ASSUME NEW w, NEW t, m \in Leaves(w, t), t # "COMPOUND"
      PROVE  m.next = NULL /\ m.type # "COMPOUND"
  BY <1>5 DEF Leaves
<1>6. ASSUME NEW w, NEW t, NEW n \in Levels, m \in Inner(w, t, n), t # "NON"
      PROVE  m.next \in Levels /\ m.type # "NON"
  BY <1>6 DEF Inner
<1> QED
  BY <1>1, <1>2, <1>4, <1>5, <1>6

\* The loop's count is what the tokens leave, and what it accepts is a leaf
\* with its argument.
ParseInv ==
  /\ line \in Lines
  /\ pos \in Nat
  /\ argc = Len(line) - pos
  /\ level \in DOMAIN Table
  /\ OnlyLeavesAccepted
  /\ ArgumentIsPassed

\* One iteration of parse_command keeps the walk on a path of the tables.
LEMMA ParseStep == ParseInv /\ [Next]_vars => ParseInv'
<1> SUFFICES ASSUME ParseInv, [Next]_vars
             PROVE  ParseInv'
  OBVIOUS
<1>1. Len(line) \in Nat
  BY LinesAssumption, LenProperties DEF ParseInv
<1>2. CASE UNCHANGED vars
  BY <1>2 DEF vars, ParseInv, OnlyLeavesAccepted, ArgumentIsPassed, Passed, Word, Argv
<1>3. CASE NoMatch
  BY <1>3 DEF NoMatch, ParseInv, OnlyLeavesAccepted, ArgumentIsPassed
<1>4. CASE Match
  <2>1. PICK m \in Found(Word(pos)) :
          /\ match' = m
          /\ argc' = argc - 1
          /\ pos' = pos + 1
          /\ verdict' = Judge(m, argc', Word(pos'))
          /\ level' = IF verdict' = "parsing" THEN m.next ELSE level
    BY <1>4 DEF Match
  <2>2. m \in Table[level] /\ line' = line
    BY <1>4 DEF Match, Found
  <2>3. /\ m.next \in DOMAIN Table \cup {NULL}
        /\ m.type = "COMPOUND" => m.next # NULL
        /\ m.type = "NON" => m.next = NULL
    BY <2>2, TableFacts DEF ParseInv
  <2>4. pos' \in Nat /\ argc' = Len(line) - pos' /\ argc' \in Int
    BY <1>1, <2>1 DEF ParseInv
  <2>5. level' \in DOMAIN Table
    BY <2>1, <2>3 DEF ParseInv, Judge
  <2>6. ASSUME verdict' = "accepted"
        PROVE  m.next = NULL /\ m.type # "COMPOUND"
    BY <2>1, <2>3, <2>4, <2>6 DEF Judge
  <2>7. ASSUME verdict' = "accepted", m.type # "NON"
        PROVE  Passed # NULL /\ Passed = Word(pos')
    <3>1. argc' = 0 /\ Word(pos') # NULL
      <4> DEFINE following == Word(pos')
                 left == argc'
      <4>1. Judge(m, left, following) = "accepted" /\ left \in Int
        BY <2>1, <2>4, <2>7
      <4> HIDE DEF following, left
      <4>2. left = 0 /\ following # NULL
        BY <2>3, <2>6, <2>7, <4>1 DEF Judge
      <4> QED
        BY <4>2 DEF following, left
    <3>2. pos' = Len(line)
      BY <1>1, <2>4, <3>1
    <3> QED
      BY <3>1, <3>2 DEF Passed
  <2>8. OnlyLeavesAccepted'
    BY <2>1, <2>6 DEF OnlyLeavesAccepted
  <2>9. ArgumentIsPassed'
    BY <2>1, <2>2, <2>7 DEF ArgumentIsPassed, Word, Argv, Passed
  <2> QED
    BY <2>2, <2>4, <2>5, <2>8, <2>9 DEF ParseInv
<1> QED
  BY <1>2, <1>3, <1>4 DEF Next

\* The invariant of parse_command's loop, for any set of lines.
THEOREM ParseInvariant == Spec => []ParseInv
<1>1. Init => ParseInv
  <2> SUFFICES ASSUME Init
               PROVE  ParseInv
    OBVIOUS
  <2>1. "first" \in DOMAIN Table
    BY DEF Table
  <2> QED
    BY <2>1 DEF Init, ParseInv, OnlyLeavesAccepted, ArgumentIsPassed
<1> QED
  BY <1>1, ParseStep, PTL DEF Spec

\* However a line is cut short or padded with blanks, run_command is given a
\* leaf of the tables.
THEOREM AcceptedIsLeaf == Spec => []OnlyLeavesAccepted
<1>1. ParseInv => OnlyLeavesAccepted
  BY DEF ParseInv
<1> QED
  BY <1>1, ParseInvariant, PTL

\* A command that formats an argument gets the word behind it, although argc
\* counts the empty tokens argv has dropped.
THEOREM AcceptedHasArgument == Spec => []ArgumentIsPassed
<1>1. ParseInv => ArgumentIsPassed
  BY DEF ParseInv
<1> QED
  BY <1>1, ParseInvariant, PTL

=============================================================================
