----------------------------- MODULE RobotsRules -----------------------------
(***************************************************************************)
(* What a robots.txt says of a path (lib/scrape/robots.ts): its lines are  *)
(* gathered into groups, the rules of the groups for the most specific of  *)
(* our names are taken together, and the most specific rule that matches   *)
(* decides.  The file is read line by line and may end after any.          *)
(***************************************************************************)
EXTENDS Naturals, Sequences, SequencesExt

CONSTANTS Tokens,        \* ROBOTS_AGENT_TOKENS, the most specific first
          Strangers,     \* the names of other agents
          Patterns, Paths,        \* sequences of characters
          MaxLines       \* bound

Nameless == "nameless"     \* "User-agent:" without a value

\* Our names are distinct and are names, and a pattern has a character.
ASSUME RobotsConstants ==
    /\ Tokens \in Seq(ToSet(Tokens)) /\ \A i, j \in DOMAIN Tokens : Tokens[i] = Tokens[j] => i = j
    /\ Nameless \notin ToSet(Tokens)
    /\ \A p \in Patterns : Len(p) \in Nat \ {0}

VARIABLES text,               \* the lines read so far
          groups, agentRun    \* parseRobotsGroups

robotsFileVars == <<text, groups, agentRun>>

Line(field, value) == [field |-> field, value |-> value]
FileLines == {Line("user-agent", <<a>>) : a \in ToSet(Tokens) \cup Strangers \cup {Nameless}}
           \cup {Line(f, p) : f \in {"allow", "disallow"}, p \in Patterns \cup {<<>>}}
           \cup {Line("other", <<>>)}

RobotsInit == text = <<>> /\ groups = <<>> /\ agentRun = FALSE

-----------------------------------------------------------------------------
\* parseRobotsGroups: a run of User-agent lines addresses one group.
UserAgent(line) ==
    LET named == IF line.value = <<Nameless>> THEN <<>> ELSE line.value IN
    /\ line.field = "user-agent" /\ agentRun' = TRUE
    /\ groups' = IF agentRun THEN [groups EXCEPT ![Len(groups)].agents = @ \o named]
                 ELSE Append(groups, [agents |-> named, rules |-> <<>>])

\* An empty value is no rule, yet it ends the run.
RuleLine(line) ==
    /\ line.field \in {"allow", "disallow"} /\ agentRun' = FALSE
    /\ groups' = IF groups = <<>> \/ line.value = <<>> THEN groups
                 ELSE [groups EXCEPT ![Len(groups)].rules = Append(@, line)]

Skipped(line) == line.field = "other" /\ UNCHANGED <<groups, agentRun>>

RobotsNext ==
    /\ Len(text) < MaxLines
    /\ \E line \in FileLines :
           text' = Append(text, line) /\ (UserAgent(line) \/ RuleLine(line) \/ Skipped(line))

RobotsSpec == RobotsInit /\ [][RobotsNext]_robotsFileVars

-----------------------------------------------------------------------------
\* rulesFor: an earlier token is more specific, and the groups that name the same one are merged.
Nobody == Len(Tokens) + 1
Rank(agent) == IF agent \in ToSet(Tokens) THEN CHOOSE i \in DOMAIN Tokens : Tokens[i] = agent ELSE Nobody
Better(best, agent, rules) ==
    IF Rank(agent) < best.rank THEN [rank |-> Rank(agent), rules |-> rules]
    ELSE IF Rank(agent) = best.rank /\ Rank(agent) # Nobody THEN [best EXCEPT !.rules = @ \o rules]
    ELSE best

ByGroup(best, group) == FoldLeft(LAMBDA b, agent : Better(b, agent, group.rules), best, group.agents)

rulesFor(found) == FoldLeft(ByGroup, [rank |-> Nobody, rules |-> <<>>], found).rules

\* The pattern stands at the start of the path; a star is any run of characters, a last $ the end.
\* reach[i] is where in the path the first i characters of the pattern may end.
patternMatch(pattern, path) ==
    LET anchored == pattern # <<>> /\ Last(pattern) = "$"
        body == IF anchored THEN Front(pattern) ELSE pattern
        reach[i \in 0..Len(body)] ==
            IF i = 0 THEN {0}
            ELSE {n \in 0..Len(path) :
                     IF body[i] = "*" THEN \E k \in reach[i - 1] : k <= n
                     ELSE n - 1 \in reach[i - 1] /\ path[n] = body[i]}
    IN  IF anchored THEN Len(path) \in reach[Len(body)] ELSE reach[Len(body)] # {}
Matching == {pair \in Patterns \X Paths : patternMatch(pair[1], pair[2])}

\* The bug looked for: a tie goes to the line that comes last.
DecidesWhenLast(rule, best) == Len(rule.value) >= best.length

\* The longest rule that matches decides, and a tie goes to Allow.
Decides(rule, best) ==
    \/ Len(rule.value) > best.length
    \/ Len(rule.value) = best.length /\ rule.field = "allow"

Weighed(best, rule, path) ==
    IF <<rule.value, path>> \in Matching /\ Decides(rule, best)
      THEN [length |-> Len(rule.value), allow |-> rule.field = "allow"]
    ELSE best

isPathAllowed(rules, path) ==
    FoldLeft(LAMBDA best, rule : Weighed(best, rule, path), [length |-> 0, allow |-> TRUE], rules).allow

-----------------------------------------------------------------------------
\* The standard, said of the lines of the file and of nothing the parser keeps.  A User-agent line
\* addresses the rules after it, up to the first User-agent line that follows a rule.
IsRule(i) == text[i].field \in {"allow", "disallow"}
IsAgent(i) == text[i].field = "user-agent"
Addresses(n, k) ==
    /\ IsAgent(n) /\ n < k
    /\ ~\E i, j \in (n + 1)..(k - 1) : i < j /\ IsRule(i) /\ IsAgent(j)
NamesUs(t) == {n \in DOMAIN text : IsAgent(n) /\ text[n].value = <<Tokens[t]>>}
OurToken == CHOOSE t \in DOMAIN Tokens : NamesUs(t) # {} /\ \A u \in 1..(t - 1) : NamesUs(u) = {}
OurRules ==
    IF \E t \in DOMAIN Tokens : NamesUs(t) # {}
      THEN {text[k] : k \in {k \in DOMAIN text : IsRule(k) /\ \E n \in NamesUs(OurToken) : Addresses(n, k)}}
      ELSE {}

\* Whatever the order of its groups and lines, the parser and the choice of a rule say of every path
\* what the file says: a path is refused exactly when a rule for our most specific name refuses it
\* and no rule as long allows it (isPathAllowed after parseRobots, RFC 9309 2.2.2).
VerdictIsTheStandards ==
    \A path \in Paths :
        LET matched == {rule \in OurRules : <<rule.value, path>> \in Matching}
        IN  isPathAllowed(rulesFor(groups), path) <=>
                \A no \in matched : no.field = "disallow" =>
                    \E yes \in matched : yes.field = "allow" /\ Len(yes.value) >= Len(no.value)
=============================================================================
