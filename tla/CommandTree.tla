----------------------------- MODULE CommandTree -----------------------------
(***************************************************************************)
(* How check_reload_status turns a client's line into an entry of its      *)
(* command tables: the split of socket_read_command and the loop of        *)
(* parse_command, one iteration a step.  The split counts a token for       *)
(* every separator, so a doubled or trailing blank makes argc larger than  *)
(* the number of words in argv.                                            *)
(***************************************************************************)
EXTENDS Integers, Sequences

CONSTANTS
  Lines,   \* the token sequences clients send; "" is the empty token between
           \* two blanks
  NULL

ASSUME LinesAssumption == \A l \in Lines : l \in Seq(STRING) /\ l # << >>

\* server.h: level -> its entries; a leaf has next = NULL.
Leaves(words, type) == [keyword : words, type : {type}, next : {NULL}]
Inner(words, type, next) == [keyword : words, type : {type}, next : {next}]

Table ==
  [first |->
     Inner({"filter"}, "COMPOUND", "filter") \cup
     Inner({"interface"}, "COMPOUND", "interface") \cup
     Inner({"service"}, "COMPOUND", "service"),
   filter |-> Leaves({"reload", "reconfigure", "restart", "sync"}, "NON"),
   interface |->
     Inner({"all", "linkup"}, "STRING", "interface2") \cup
     Leaves({"reload", "reconfigure", "restart", "carpmaster", "carpbackup"}, "IFNAME") \cup
     Leaves({"newip", "newipv6"}, "STRING") \cup
     Leaves({"sync"}, "NON"),
   interface2 |-> Leaves({"reload"}, "NON") \cup Leaves({"start", "stop"}, "IFNAME"),
   service |->
     Inner({"reload", "reconfigure", "restart"}, "STRING", "service2") \cup
     Inner({"sync"}, "STRING", "service_sync"),
   service2 |->
     Leaves({"all", "dns", "ipsecdns", "routedns", "dyndnsall", "ntpd",
             "packages", "sshd", "webgui"}, "NON") \cup
     Leaves({"openvpn", "dyndns"}, "STRING"),
   service_sync |-> Leaves({"vouchers"}, "NON")]

\* The end of the tables' lists is none of them.
ASSUME NullAssumption == NULL \notin DOMAIN Table

VARIABLES
  line,     \* the tokens of the client's line
  pos,      \* index in argv of the next word
  argc,     \* parse_command's count, from the number of tokens
  level,    \* the table being searched
  match,    \* the entry found last
  verdict   \* "parsing", then "accepted" or the error sent to the client

vars == <<line, pos, argc, level, match, verdict>>

-----------------------------------------------------------------------------
NonEmpty(w) == w # ""

\* argv keeps the words and drops the empty tokens; a NULL ends it.
Argv == SelectSeq(line, NonEmpty)
Word(i) == IF i \in DOMAIN Argv THEN Argv[i] ELSE NULL

\* The pointer handed to run_command: argv at the number of tokens.
Passed == Word(Len(line))

Found(w) == {e \in Table[level] : e.keyword = w}

Init ==
  /\ line \in Lines
  /\ pos = 1
  /\ argc = Len(line) - 1
  /\ level = "first"
  /\ match = NULL
  /\ verdict = "parsing"

\* Mutants: without the check that the line went on far enough; without the
\* check that the argument is there.
JudgeEarlyEnd(m, left, following) ==
  IF left > 0 /\ m.next = NULL THEN "extra arguments"
  ELSE IF left = 0 /\ following = NULL /\ m.type # "NON" THEN "incomplete"
  ELSE IF m.next = NULL \/ left < 0 THEN "accepted"
  ELSE "parsing"

JudgeNoArgument(m, left, following) ==
  IF left > 0 /\ m.next = NULL THEN "extra arguments"
  ELSE IF left < 0 /\ m.type # "NON" THEN "incomplete"
  ELSE IF m.next = NULL \/ left < 0 THEN "accepted"
  ELSE "parsing"

\* The checks parse_command makes of an entry once it has stepped past its word.
Judge(m, left, following) ==
  IF left > 0 /\ m.next = NULL THEN "extra arguments"
  ELSE IF left < 0 /\ m.type # "NON" THEN "incomplete"
  ELSE IF left = 0 /\ following = NULL /\ m.type # "NON" THEN "incomplete"
  ELSE IF m.next = NULL \/ left < 0 THEN "accepted"
  ELSE "parsing"

NoMatch ==
  /\ verdict = "parsing"
  /\ Found(Word(pos)) = {}
  /\ verdict' = "no match"
  /\ UNCHANGED <<line, pos, argc, level, match>>

Match ==
  /\ verdict = "parsing"
  /\ \E m \in Found(Word(pos)) :
       /\ match' = m
       /\ argc' = argc - 1
       /\ pos' = pos + 1
       /\ verdict' = Judge(m, argc', Word(pos'))
       /\ level' = IF verdict' = "parsing" THEN m.next ELSE level
  /\ UNCHANGED line

Next == Match \/ NoMatch

Spec == Init /\ [][Next]_vars

-----------------------------------------------------------------------------
\* run_command is never given an inner entry of the tables ("XXX: Should never
\* happen"), however the line is cut short or padded with blanks.
OnlyLeavesAccepted == verdict = "accepted" => match.next = NULL /\ match.type # "COMPOUND"

\* A command that formats its argument into a parameter string gets a word and
\* not the end of argv, and it is the word that follows the command.
ArgumentIsPassed ==
  verdict = "accepted" /\ match.type # "NON" =>
    /\ Passed # NULL
    /\ Passed = Word(pos)

\* A command that takes no argument is refused when a word follows it.
ExtraWordsRefused ==
  verdict = "accepted" /\ match.type = "NON" => Word(pos) = NULL

=============================================================================
