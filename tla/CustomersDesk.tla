---------------------------- MODULE CustomersDesk ----------------------------
(***************************************************************************)
(* The studio's page of customers over the endpoints that create, rename,  *)
(* pause and delete them.  An answer carries the row as it reads after the *)
(* write, and is read by its number once the lock has been let go; the page*)
(* keeps it under the code it asked about, in place of the row it had.     *)
(***************************************************************************)
EXTENDS Integers, Sequences, SequencesExt, FiniteSets

CONSTANTS Codes,      \* the codes a customer may have
          FirstCodes, \* those of the customers the page was rendered with
          Nicks,      \* the names they are given
          Asks,       \* requests under way
          MaxAsks,    \* bound: requests the page sends
          MaxMisses   \* bound: requests that fail or are not heard

ASSUME FirstCustomers == IsFiniteSet(FirstCodes)

VARIABLES customers,  \* the rows of the tab, newest first
          written,    \* writes of that tab so far; the version of a row is that of the write it is from
          desk,       \* the page's customers, by code
          lines,      \* the rows of its table
          drawn,      \* rows ever drawn: a row that was replaced is in the table no more
          ask,        \* the requests, from the page and back to it
          asks, misses,
          doubtful,   \* codes a request about which went wrong, or crossed another's
          strayed     \* an answer was about somebody else

deskVars == <<customers, written, desk, lines, drawn, ask, asks, misses, doubtful, strayed>>

Unasked == [at |-> "idle"]
Nothing == [code |-> "none"]
Refused == [code |-> "refused"]

clientRow(c, el) == [el |-> el, code |-> c.code, nick |-> c.nick, on |-> c.on, busy |-> FALSE]

DeskInit ==
    LET first == SetToSeq(FirstCodes) IN
    /\ customers = [i \in DOMAIN first |-> [code |-> first[i], nick |-> CHOOSE n \in Nicks : TRUE, on |-> TRUE, version |-> 0]]
    /\ written = 0
    /\ desk = [c \in FirstCodes |-> customers[CHOOSE i \in DOMAIN customers : customers[i].code = c]]
    /\ lines = [i \in DOMAIN customers |-> clientRow(customers[i], i)]
    /\ drawn = Len(lines)
    /\ ask = [r \in Asks |-> Unasked] /\ asks = 0 /\ misses = 0
    /\ doubtful = {} /\ strayed = FALSE

-----------------------------------------------------------------------------
\* The page.
Drawn(code) == {i \in DOMAIN lines : lines[i].code = code}
Line(code) == CHOOSE i \in Drawn(code) : \A j \in Drawn(code) : i <= j
About(code) == {r \in Asks : ask[r].at # "idle" /\ ask[r].code = code}

\* Two requests about one customer cross: the answer of either may be older than the other's.
Cross(code) == IF About(code) # {} THEN doubtful \cup {code} ELSE doubtful

Post(r, kind, code, nick, on) ==
    /\ ask[r].at = "idle" /\ asks < MaxAsks /\ asks' = asks + 1
    /\ ask' = [ask EXCEPT ![r] = [at |-> "sent", kind |-> kind, code |-> code, nick |-> nick, on |-> on,
                                  version |-> IF kind = "create" THEN 0 ELSE desk[code].version,
                                  el |-> IF kind = "create" THEN 0 ELSE lines[Line(code)].el,
                                  row |-> 0, heard |-> TRUE, answer |-> Nothing]]
    /\ doubtful' = Cross(code)
    /\ UNCHANGED <<customers, written, desk, drawn, misses, strayed>>

Shown(code) == code \in DOMAIN desk /\ Drawn(code) # {}

\* The button is disabled until the answer; Enter in the field of the name is not.
doGenerate(r) == (\E nick \in Nicks : Post(r, "create", "new", nick, TRUE)) /\ UNCHANGED lines

\* The switch has moved by the time its request goes, and is disabled until the answer.
setStatus(r) == \E code \in DOMAIN desk :
    /\ Shown(code) /\ ~lines[Line(code)].busy
    /\ Post(r, "status", code, desk[code].nick, ~lines[Line(code)].on)
    /\ lines' = [lines EXCEPT ![Line(code)] = [@ EXCEPT !.on = ~lines[Line(code)].on, !.busy = TRUE]]

rename(r) == \E code \in DOMAIN desk, nick \in Nicks :
    Shown(code) /\ Post(r, "rename", code, nick, desk[code].on) /\ UNCHANGED lines

remove(r) == \E code \in DOMAIN desk :
    Shown(code) /\ Post(r, "delete", code, desk[code].nick, desk[code].on) /\ UNCHANGED lines

-----------------------------------------------------------------------------
\* The endpoint.
RowsOf(code) == {i \in DOMAIN customers : customers[i].code = code}
Answered(r, answer) == ask' = [ask EXCEPT ![r] = [@ EXCEPT !.at = "answered", !.answer = answer]]
Untouched == UNCHANGED <<customers, written>>

Unchanged(q, c) == (q.kind = "rename" /\ c.nick = q.nick) \/ (q.kind = "status" /\ c.on = q.on)

\* It reads the tab: a new code is one not in use, another must be there, and what is so already is answered.
loadSnapshot(r) ==
    LET q == ask[r] IN
    /\ q.at = "sent" /\ Untouched
    /\ IF q.kind = "create"
         THEN \E code \in {c \in Codes : RowsOf(c) = {}} :
                  ask' = [ask EXCEPT ![r] = [@ EXCEPT !.at = "queued", !.code = code, !.row = 1]]
         ELSE \/ RowsOf(q.code) = {} /\ Answered(r, Refused)
              \/ \E i \in RowsOf(q.code) :
                   IF Unchanged(q, customers[i]) THEN Answered(r, customers[i])
                   ELSE ask' = [ask EXCEPT ![r] = [@ EXCEPT !.at = "queued", !.row = i,
                                                            !.nick = IF q.kind = "rename" THEN q.nick ELSE customers[i].nick,
                                                            !.on = IF q.kind = "status" THEN q.on ELSE customers[i].on]]

\* Under the lock the row is compared and the batch goes; the lock is free when this is done.
Stands(q) == q.row \in DOMAIN customers /\ customers[q.row].code = q.code /\ customers[q.row].version = q.version
Cells(q) == [code |-> q.code, nick |-> q.nick, on |-> q.on, version |-> written + 1]

Written(r) ==
    LET q == ask[r] IN
    /\ q.at = "queued"
    /\ IF IF q.kind = "create" THEN RowsOf(q.code) # {} ELSE ~Stands(q)
         THEN Answered(r, Refused) /\ Untouched
         ELSE /\ written' = written + 1
              /\ customers' = CASE q.kind = "create" -> <<Cells(q)>> \o customers
                                [] q.kind = "delete" -> RemoveAt(customers, q.row)
                                [] OTHER -> [customers EXCEPT ![q.row] = Cells(q)]
              /\ IF q.kind = "delete" THEN Answered(r, [code |-> q.code])
                 ELSE ask' = [ask EXCEPT ![r] = [@ EXCEPT !.at = "written"]]

\* The row is read again by its number, and may be another's by now.
freshClient(r) ==
    LET q == ask[r] IN
    /\ q.at = "written" /\ Untouched
    /\ Answered(r, IF q.row \in DOMAIN customers THEN customers[q.row] ELSE Refused)

Handle(r) ==
    /\ loadSnapshot(r) \/ Written(r) \/ freshClient(r)
    /\ UNCHANGED <<desk, lines, drawn, asks, misses, doubtful, strayed>>

-----------------------------------------------------------------------------
\* The answer at the page.
Same(el) == {i \in DOMAIN lines : lines[i].el = el}

\* The switch may be used again, and stays where the hand left it.
Failed(r) ==
    /\ lines' = [i \in DOMAIN lines |->
                    IF ask[r].kind = "status" /\ lines[i].el = ask[r].el THEN [lines[i] EXCEPT !.busy = FALSE] ELSE lines[i]]
    /\ doubtful' = doubtful \cup {ask[r].code}
    /\ UNCHANGED <<desk, drawn, strayed>>

KeptWithOldVersion(code, c) ==
    [d \in DOMAIN desk \cup {code} |->
        IF d = code THEN (IF code \in DOMAIN desk THEN [c EXCEPT !.version = desk[code].version] ELSE c) ELSE desk[d]]

Kept(code, c) == [d \in DOMAIN desk \cup {code} |-> IF d = code THEN c ELSE desk[d]]

Takes(r, c) ==
    LET q == ask[r] IN
    /\ drawn' = drawn + 1
    /\ desk' = Kept(IF q.kind = "create" THEN c.code ELSE q.code, c)
    /\ lines' = IF q.kind = "create" THEN <<clientRow(c, drawn')>> \o lines
                ELSE [i \in DOMAIN lines |-> IF lines[i].el = q.el THEN clientRow(c, drawn') ELSE lines[i]]
    /\ strayed' = (strayed \/ c.code # q.code)
    /\ UNCHANGED doubtful

Removes(q) ==
    /\ desk' = [code \in DOMAIN desk \ {q.code} |-> desk[code]]
    /\ lines' = IF Same(q.el) = {} THEN lines ELSE RemoveAt(lines, CHOOSE i \in Same(q.el) : TRUE)
    /\ UNCHANGED <<drawn, doubtful, strayed>>

Hears(r) ==
    /\ ask[r].at = "answered" /\ ask' = [ask EXCEPT ![r] = Unasked]
    /\ IF ~ask[r].heard THEN UNCHANGED <<desk, lines, drawn, doubtful, strayed>>
       ELSE IF ask[r].answer.code = Refused.code THEN Failed(r)
       ELSE IF ask[r].kind = "delete" THEN Removes(ask[r])
       ELSE Takes(r, ask[r].answer)
    /\ UNCHANGED <<customers, written, asks, misses>>

Misses == misses < MaxMisses /\ misses' = misses + 1

\* A call of the endpoint fails: an error goes back, whatever was written.
Breaks(r) ==
    /\ Misses /\ ask[r].at \in {"sent", "queued", "written"} /\ Answered(r, Refused)
    /\ UNCHANGED <<customers, written, desk, lines, drawn, asks, doubtful, strayed>>

\* The page gives up on a request, which goes on.
TimesOut(r) ==
    /\ Misses /\ ask[r].at # "idle" /\ ask[r].heard /\ Failed(r)
    /\ ask' = [ask EXCEPT ![r] = [@ EXCEPT !.heard = FALSE]]
    /\ UNCHANGED <<customers, written, asks>>

DeskNext == \E r \in Asks :
    doGenerate(r) \/ setStatus(r) \/ rename(r) \/ remove(r) \/ Handle(r) \/ Hears(r) \/ Breaks(r) \/ TimesOut(r)

DeskSpec == DeskInit /\ [][DeskNext]_deskVars

-----------------------------------------------------------------------------
\* Of a customer no request is under way about, and nothing went wrong about, the page shows what
\* the tab says, switch and name, and holds the version its next request will be compared with.
DeskInStep ==
    ~strayed => \A code \in DOMAIN desk \ doubtful : About(code) = {} =>
        /\ \E i \in DOMAIN customers : customers[i] = desk[code]
        /\ \E i \in DOMAIN lines : lines[i].code = code /\ lines[i].nick = desk[code].nick /\ lines[i].on = desk[code].on

\* An answer is about the customer it was asked about: the link of a new customer is theirs.
AnswersNameTheCustomer == ~strayed

\* The switch of a row follows the server's answer, never its own flip.
SwitchFollowsServer ==
    \A i \in DOMAIN lines : ~lines[i].busy /\ lines[i].code \in DOMAIN desk => lines[i].on = desk[lines[i].code].on
=============================================================================
