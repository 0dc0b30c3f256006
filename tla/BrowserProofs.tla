--------------------------- MODULE BrowserProofs ----------------------------
(***************************************************************************)
(* What the pages of a browser promise, for any names, choices, links and  *)
(* number of requests: whoever writes the row of a product takes away      *)
(* nothing they had not on screen, a product of the studio's own store     *)
(* keeps its own number, and a like button shows the visitor's own vote    *)
(* once everything they tapped is sent, and the catalogue's address names  *)
(* what is on screen.  And of the page that sets the spreadsheet up: that  *)
(* what it calls done is complete, however often it was stopped before.    *)
(***************************************************************************)
EXTENDS ReactionBuffer, CataloguePage, AddForm, ProductRow, Provisioning,
        SequenceTheorems, FiniteSetTheorems, TLAPS

-----------------------------------------------------------------------------
(* The like buttons of the pages                                           *)

Carries(f, p) == p \in DOMAIN posts[f].items

\* A free post carries nothing.
PostsOK ==
    /\ DOMAIN posts = Posts
    /\ \A f \in Posts :
          /\ {"phase", "items", "waited"} \subseteq DOMAIN posts[f]
          /\ posts[f].phase = "free" => DOMAIN posts[f].items = {}

\* The post carries the visitor's last word on p, its answer is waited for, and where it was taken the
\* answer names p and the sheet has it.
BringsLastWord(f, p) ==
    /\ posts[f].waited /\ posts[f].items[p].state = wish[p].state
    /\ posts[f].phase = "handled" =>
          /\ posts[f].outcome # "refused"
          /\ posts[f].outcome = "ok" => p \in posts[f].known /\ recorded[p] = wish[p].state

\* One post at most carries p; what the buffer has of p is the last word; a post brings it, or the
\* buffer has it; and when neither has, everybody knows.
InStep(p) ==
    /\ \A f, g \in Posts : Carries(f, p) /\ Carries(g, p) => f = g
    /\ p \in DOMAIN buffer => buffer[p].state = wish[p].state
    /\ \A f \in Posts : Carries(f, p) => p \in DOMAIN buffer \/ BringsLastWord(f, p)
    /\ p \notin DOMAIN buffer /\ (\A f \in Posts : ~Carries(f, p)) /\ wish[p].tap > 0 =>
          saved[p] = wish[p].state /\ recorded[p] = wish[p].state

BufferInv ==
    /\ PostsOK /\ listed \subseteq Products /\ DOMAIN wish = Products
    /\ \A p \in listed \ unsure : InStep(p)

LEMMA NoPostForm == /\ {"phase", "items", "waited"} \subseteq DOMAIN NoPost
                    /\ NoPost.phase = "free" /\ DOMAIN NoPost.items = {}
  BY DEF NoPost

LEMMA BufferInitInv == BufferInit => BufferInv
  <1> SUFFICES ASSUME BufferInit PROVE BufferInv
    OBVIOUS
  <1>1. \A f \in Posts : posts[f] = NoPost
    BY DEF BufferInit
  <1>2. PostsOK
    BY <1>1, NoPostForm DEF BufferInit, PostsOK
  <1>3. \A p \in Products : wish[p].tap = 0 /\ p \notin DOMAIN buffer /\ \A f \in Posts : ~Carries(f, p)
    BY <1>1, NoPostForm DEF BufferInit, NoTap, Carries
  <1> QED BY <1>2, <1>3 DEF BufferInit, BufferInv, InStep

\* Nothing that p depends on changes.
LEMMA Undisturbed ==
    ASSUME NEW p, InStep(p), DOMAIN posts' = Posts,
           (p \in DOMAIN buffer') <=> (p \in DOMAIN buffer), buffer'[p] = buffer[p],
           saved'[p] = saved[p], recorded'[p] = recorded[p], wish'[p] = wish[p],
           \A f \in Posts : (Carries(f, p)' <=> Carries(f, p)) /\ (Carries(f, p) => posts'[f] = posts[f])
    PROVE  InStep(p)'
  <1>1. \A f \in Posts : Carries(f, p) => (BringsLastWord(f, p)' <=> BringsLastWord(f, p))
    BY DEF BringsLastWord
  <1> QED BY <1>1 DEF InStep

\* One post changes.
LEMMA OnePostChanges ==
    ASSUME PostsOK, NEW f \in Posts, NEW r, posts' = [posts EXCEPT ![f] = r],
           {"phase", "items", "waited"} \subseteq DOMAIN r, r.phase = "free" => DOMAIN r.items = {}
    PROVE  /\ PostsOK' /\ posts'[f] = r
           /\ \A g \in Posts : g # f => posts'[g] = posts[g]
  BY DEF PostsOK

\* What leaves the buffer leaves as the last word, unless it is on its way already.
LEMMA FlushKeeps ==
    ASSUME BufferInv, NEW items, flush(items),
           UNCHANGED <<recorded, listed>>,
           DOMAIN wish' = Products,
           \A p \in DOMAIN buffer : p \in DOMAIN items,
           \A p \in (DOMAIN items \cap listed) \ unsure : items[p].state = wish'[p].state,
           \A p \in listed \ DOMAIN items : saved'[p] = saved[p] /\ wish'[p] = wish[p]
    PROVE  BufferInv'
  <1>1. PostsOK
    BY DEF BufferInv
  <1>2. DOMAIN buffer' = {} /\ unsure' = unsure \cup (DOMAIN items \cap Carried) /\ Post(items, TRUE)
    BY DEF flush, Empty
  <1>3. CASE DOMAIN items = {}
    <2>1. posts' = posts /\ \A p : p \notin DOMAIN buffer
      BY <1>2, <1>3 DEF Post
    <2>2. PostsOK'
      BY <1>1, <2>1 DEF PostsOK
    <2>3. ASSUME NEW p \in listed \ unsure PROVE InStep(p)'
      <3>1. /\ InStep(p) /\ saved'[p] = saved[p] /\ wish'[p] = wish[p]
            /\ p \notin DOMAIN buffer /\ p \notin DOMAIN buffer' /\ recorded' = recorded
        BY <1>2, <1>3, <2>1, <2>3 DEF BufferInv
      <3>2. \A f \in Posts : (Carries(f, p)' <=> Carries(f, p)) /\ (BringsLastWord(f, p)' <=> BringsLastWord(f, p))
        BY <2>1, <3>1 DEF Carries, BringsLastWord
      <3> QED BY <3>1, <3>2 DEF InStep
    <2> QED BY <1>2, <1>3, <2>2, <2>3 DEF BufferInv
  <1>4. CASE DOMAIN items # {}
    <2>1. PICK f \in Posts : /\ posts[f].phase = "free"
                             /\ posts' = [posts EXCEPT ![f] = [phase |-> "sent", items |-> items, waited |-> TRUE]]
      BY <1>2, <1>4 DEF Post
    <2>2. PICK r : r = [phase |-> "sent", items |-> items, waited |-> TRUE]
      OBVIOUS
    <2>3. /\ {"phase", "items", "waited"} \subseteq DOMAIN r /\ r.phase = "sent" /\ r.items = items /\ r.waited = TRUE
      BY <2>2
    <2>4. PostsOK' /\ posts'[f] = r /\ \A g \in Posts : g # f => posts'[g] = posts[g]
      BY <1>1, <2>1, <2>2, <2>3, OnePostChanges
    <2>5. ASSUME NEW p \in listed \ unsure' PROVE InStep(p)'
      <3>1. InStep(p) /\ ~Carries(f, p) /\ p \notin DOMAIN buffer' /\ p \in listed \ unsure
        BY <1>1, <1>2, <2>1 DEF BufferInv, PostsOK, Carries
      <3>2. \A g \in Posts : g # f => (Carries(g, p)' <=> Carries(g, p))
        BY <2>4 DEF Carries
      <3>3. CASE p \in DOMAIN items
        <4>1. \A g \in Posts : ~Carries(g, p)
          BY <1>2, <3>3 DEF Carried, Carries
        <4>2. \A g \in Posts : Carries(g, p)' => g = f
          BY <3>2, <4>1
        <4>3. BringsLastWord(f, p)'
          BY <2>3, <2>4, <3>1, <3>3 DEF BringsLastWord
        <4>4. Carries(f, p)'
          BY <2>3, <2>4, <3>3 DEF Carries
        <4> QED BY <3>1, <4>2, <4>3, <4>4 DEF InStep
      <3>4. CASE p \notin DOMAIN items
        <4>1. /\ p \notin DOMAIN buffer /\ saved'[p] = saved[p] /\ wish'[p] = wish[p] /\ recorded'[p] = recorded[p]
          BY <3>1, <3>4
        <4>2. ~Carries(f, p)'
          BY <2>3, <2>4, <3>4 DEF Carries
        <4>3. \A g \in Posts : Carries(g, p) => (BringsLastWord(g, p)' <=> BringsLastWord(g, p))
          BY <2>4, <3>1, <4>1 DEF BringsLastWord
        <4> QED BY <3>1, <3>2, <4>1, <4>2, <4>3 DEF InStep
      <3> QED BY <3>3, <3>4
    <2> QED BY <1>2, <2>4, <2>5 DEF BufferInv
  <1> QED BY <1>3, <1>4

LEMMA TapKeeps ==
    ASSUME BufferInv, NEW p \in Products, Tap(p)
    PROVE  BufferInv'
  <1> DEFINE next == IF saved[p] = "liked" THEN "none" ELSE "liked"
             item == [tap |-> taps + 1, state |-> next, previous |-> saved[p]]
             items == addTap(p, item)
  <1>1. /\ schedule(items) /\ UNCHANGED <<recorded, listed>>
        /\ wish' = [wish EXCEPT ![p] = [tap |-> taps + 1, state |-> next]]
        /\ saved' = [q \in Products |-> IF q \in {p} THEN next ELSE saved[q]]
    BY DEF Tap, remember
  <1>2. /\ DOMAIN items = DOMAIN buffer \cup {p} /\ items[p].state = next
        /\ \A q \in DOMAIN buffer : q # p => items[q] = buffer[q]
    BY DEF addTap
  <1> HIDE DEF items
  <1>3. DOMAIN wish' = Products /\ wish'[p].state = next /\ \A q \in Products : q # p => wish'[q] = wish[q]
    BY <1>1 DEF BufferInv
  <1> HIDE DEF next
  <1>4. \A q \in listed : q # p => saved'[q] = saved[q] /\ wish'[q] = wish[q]
    BY <1>1, <1>3 DEF BufferInv
  <1>5. \A q \in (DOMAIN items \cap listed) \ unsure : items[q].state = wish'[q].state
    <2> TAKE q \in (DOMAIN items \cap listed) \ unsure
    <2>1. CASE q = p
      BY <1>2, <1>3, <2>1
    <2>2. CASE q # p
      BY <1>2, <1>4, <2>2 DEF BufferInv, InStep
    <2> QED BY <2>1, <2>2
  <1>6. CASE flush(items)
    BY <1>1, <1>2, <1>3, <1>4, <1>5, <1>6, FlushKeeps
  <1>7. CASE buffer' = items /\ UNCHANGED <<posts, unsure>>
    <2>1. PostsOK'
      BY <1>7 DEF BufferInv, PostsOK
    <2>2. ASSUME NEW q \in listed \ unsure PROVE InStep(q)'
      <3>1. InStep(q) /\ \A f \in Posts : Carries(f, q)' <=> Carries(f, q)
        BY <1>7, <2>2 DEF BufferInv, Carries
      <3>2. CASE q \in DOMAIN items
        BY <1>5, <1>7, <3>1, <3>2 DEF InStep
      <3>3. CASE q \notin DOMAIN items
        <4>1. q \notin DOMAIN buffer /\ q \notin DOMAIN buffer' /\ wish'[q] = wish[q] /\ saved'[q] = saved[q]
              /\ recorded'[q] = recorded[q]
          BY <1>1, <1>2, <1>4, <1>7, <3>3
        <4>2. \A f \in Posts : BringsLastWord(f, q)' <=> BringsLastWord(f, q)
          BY <1>7, <4>1 DEF BringsLastWord
        <4> QED BY <3>1, <4>1, <4>2 DEF InStep
      <3> QED BY <3>2, <3>3
    <2> QED BY <1>1, <1>3, <1>7, <2>1, <2>2 DEF BufferInv
  <1> QED BY <1>1, <1>6, <1>7 DEF schedule

LEMMA TimerFiresKeeps ==
    ASSUME BufferInv, TimerFires
    PROVE  BufferInv'
  <1>1. flush(buffer) /\ UNCHANGED <<saved, recorded, listed, wish>> /\ DOMAIN wish' = Products
    BY DEF TimerFires, BufferInv
  <1>2. \A q \in (DOMAIN buffer \cap listed) \ unsure : buffer[q].state = wish'[q].state
    BY <1>1 DEF BufferInv, InStep
  <1>3. PICK items : items = buffer
    OBVIOUS
  <1>4. flush(items)
    BY <1>1, <1>3
  <1> QED BY <1>1, <1>2, <1>3, <1>4, FlushKeeps

\* What leaves with a beacon is unsure, and the rest is as it was.
LEMMA HideKeeps ==
    ASSUME BufferInv, Hide
    PROVE  BufferInv'
  <1>1. /\ DOMAIN buffer' = {} /\ unsure' = unsure \cup DOMAIN buffer /\ PostsOK
        /\ UNCHANGED <<saved, recorded, listed, wish>>
    BY DEF Hide, Empty, BufferInv
  <1>2. PICK f \in Posts : /\ posts[f].phase = "free"
                           /\ posts' = [posts EXCEPT ![f] = [phase |-> "sent", items |-> buffer, waited |-> FALSE]]
    BY DEF Hide, Post
  <1>3. PICK r : r = [phase |-> "sent", items |-> buffer, waited |-> FALSE]
    OBVIOUS
  <1>4. {"phase", "items", "waited"} \subseteq DOMAIN r /\ r.phase = "sent" /\ r.items = buffer
    BY <1>3
  <1>5. PostsOK' /\ posts'[f] = r /\ \A g \in Posts : g # f => posts'[g] = posts[g]
    BY <1>1, <1>2, <1>3, <1>4, OnePostChanges
  <1>6. ASSUME NEW p \in listed \ unsure' PROVE InStep(p)'
    <2>1. p \notin DOMAIN buffer /\ p \notin DOMAIN buffer' /\ InStep(p) /\ ~Carries(f, p)
      BY <1>1, <1>2 DEF BufferInv, PostsOK, Carries
    <2>2. ~Carries(f, p)'
      BY <1>4, <1>5, <2>1 DEF Carries
    <2>3. \A g \in Posts : g # f => (Carries(g, p)' <=> Carries(g, p))
      BY <1>5 DEF Carries
    <2>4. \A g \in Posts : Carries(g, p) => (BringsLastWord(g, p)' <=> BringsLastWord(g, p))
      BY <1>1, <1>5, <2>1 DEF BringsLastWord
    <2> QED BY <1>1, <2>1, <2>2, <2>3, <2>4 DEF InStep
  <1> QED BY <1>1, <1>5, <1>6 DEF BufferInv

LEMMA ReloadKeeps ==
    ASSUME BufferInv, Reload
    PROVE  BufferInv'
  <1>1. /\ unsure' = unsure \cup Carried /\ PostsOK
        /\ UNCHANGED <<saved, buffer, recorded, listed, wish>>
        /\ posts' = [f \in Posts |-> IF posts[f].phase = "handled" THEN NoPost
                                     ELSE [posts[f] EXCEPT !["waited"] = FALSE]]
    BY DEF Reload, BufferInv
  <1>2. ASSUME NEW f \in Posts
        PROVE  /\ {"phase", "items", "waited"} \subseteq DOMAIN posts'[f]
               /\ posts'[f].phase = "free" => DOMAIN posts'[f].items = {}
               /\ DOMAIN posts'[f].items \subseteq DOMAIN posts[f].items
    <2>1. CASE posts[f].phase = "handled"
      BY <1>1, <2>1, NoPostForm
    <2>2. CASE posts[f].phase # "handled"
      <3>1. PICK old : old = posts[f]
        OBVIOUS
      <3>2. posts'[f] = [old EXCEPT !["waited"] = FALSE]
        BY <1>1, <2>2, <3>1, Zenon
      <3>3. {"phase", "items", "waited"} \subseteq DOMAIN old /\ (old.phase = "free" => DOMAIN old.items = {})
        BY <1>1, <3>1 DEF PostsOK
      <3>4. DOMAIN posts'[f] = DOMAIN old /\ posts'[f].phase = old.phase /\ posts'[f].items = old.items
        BY <3>2, <3>3
      <3> QED BY <3>1, <3>3, <3>4
    <2> QED BY <2>1, <2>2
  <1>3. PostsOK'
    <2>1. DOMAIN posts' = Posts
      BY <1>1
    <2> QED BY <1>2, <2>1 DEF PostsOK
  <1>4. ASSUME NEW p \in listed \ unsure' PROVE InStep(p)'
    <2>1. InStep(p) /\ \A f \in Posts : ~Carries(f, p)
      BY <1>1 DEF BufferInv, Carried, Carries
    <2>2. \A f \in Posts : ~Carries(f, p)'
      BY <1>2, <2>1 DEF Carries
    <2> QED BY <1>1, <2>1, <2>2 DEF InStep
  <1> QED BY <1>1, <1>3, <1>4 DEF BufferInv

LEMMA DelistKeeps ==
    ASSUME BufferInv, Delist
    PROVE  BufferInv'
  <1>1. listed' \subseteq listed /\ UNCHANGED <<saved, buffer, posts, recorded, wish, unsure>>
    BY DEF Delist, pageVars, history
  <1>2. ASSUME NEW p, InStep(p) PROVE InStep(p)'
    BY <1>1, <1>2 DEF InStep, Carries, BringsLastWord
  <1>3. PostsOK'
    BY <1>1 DEF BufferInv, PostsOK
  <1> QED BY <1>1, <1>2, <1>3 DEF BufferInv

\* A post whose batch is put back: what was on its way is in the buffer.
LEMMA RetryKeeps ==
    ASSUME BufferInv, NEW f \in Posts, Retry(f), UNCHANGED <<recorded, listed, wish, unsure>>,
           PostsOK', \A g \in Posts : g # f => posts'[g] = posts[g],
           DOMAIN posts'[f].items \subseteq DOMAIN posts[f].items
    PROVE  BufferInv'
  <1> DEFINE items == posts[f].items
  <1>1. /\ DOMAIN buffer' = DOMAIN buffer \cup DOMAIN items /\ UNCHANGED saved
        /\ \A q \in DOMAIN buffer : buffer'[q] = buffer[q]
        /\ \A q \in DOMAIN items \ DOMAIN buffer : buffer'[q] = items[q]
    BY DEF Retry, restore
  <1>2. ASSUME NEW p \in listed \ unsure PROVE InStep(p)'
    <2>1. InStep(p)
      BY DEF BufferInv
    <2>2. \A g \in Posts : Carries(g, p)' => Carries(g, p)
      BY DEF Carries
    <2>3. CASE p \in DOMAIN buffer'
      <3>1. buffer'[p].state = wish[p].state
        <4>1. CASE p \in DOMAIN buffer
          BY <1>1, <2>1, <4>1 DEF InStep
        <4>2. CASE p \notin DOMAIN buffer
          <5>1. Carries(f, p) /\ buffer'[p] = posts[f].items[p]
            BY <1>1, <2>3, <4>2 DEF Carries
          <5> QED BY <2>1, <4>2, <5>1 DEF InStep, BringsLastWord
        <4> QED BY <4>1, <4>2
      <3> QED BY <2>1, <2>2, <2>3, <3>1 DEF InStep
    <2>4. CASE p \notin DOMAIN buffer'
      <3>1. p \notin DOMAIN buffer /\ ~Carries(f, p)
        BY <1>1, <2>4 DEF Carries
      <3>2. \A g \in Posts : Carries(g, p) => Carries(g, p)' /\ (BringsLastWord(g, p)' <=> BringsLastWord(g, p))
        BY <3>1 DEF Carries, BringsLastWord
      <3> QED BY <1>1, <2>1, <2>2, <2>4, <3>1, <3>2 DEF InStep
    <2> QED BY <2>3, <2>4
  <1> QED BY <1>2 DEF BufferInv

LEMMA PostFreed ==
    ASSUME PostsOK, NEW f \in Posts, posts' = [posts EXCEPT ![f] = NoPost]
    PROVE  /\ PostsOK' /\ DOMAIN posts'[f].items = {}
           /\ \A g \in Posts : g # f => posts'[g] = posts[g]
  <1>1. PICK r : r = NoPost
    OBVIOUS
  <1> QED BY <1>1, NoPostForm, OnePostChanges

LEMMA AnswerKeeps ==
    ASSUME BufferInv, NEW f \in Posts, Answer(f)
    PROVE  BufferInv'
  <1>1. /\ posts[f].phase = "handled" /\ UNCHANGED <<recorded, listed, wish, unsure>>
        /\ PostsOK /\ posts' = [posts EXCEPT ![f] = NoPost]
    BY DEF Answer, history, BufferInv
  <1>2. PostsOK' /\ DOMAIN posts'[f].items = {} /\ \A g \in Posts : g # f => posts'[g] = posts[g]
    BY <1>1, PostFreed
  <1>3. CASE posts[f].outcome = "failed" /\ Retry(f)
    BY <1>1, <1>2, <1>3, RetryKeeps
  <1>4. CASE AnsweredOk(f) \/ AnsweredPermanent(f)
    <2>1. UNCHANGED buffer /\ \A p \in Products : ~Carries(f, p) => saved'[p] = saved[p]
      BY <1>4 DEF AnsweredOk, AnsweredPermanent, remember, Carries
    <2>2. ASSUME NEW p \in listed \ unsure PROVE InStep(p)'
      <3>1. InStep(p) /\ p \in Products
        BY <2>2 DEF BufferInv
      <3>2. ~Carries(f, p)' /\ \A g \in Posts : g # f => (Carries(g, p)' <=> Carries(g, p))
        BY <1>2 DEF Carries
      <3>3. \A g \in Posts : g # f => (BringsLastWord(g, p)' <=> BringsLastWord(g, p))
        BY <1>1, <1>2 DEF BringsLastWord
      <3>4. CASE ~Carries(f, p)
        BY <1>1, <2>1, <3>1, <3>2, <3>3, <3>4 DEF InStep
      <3>5. CASE Carries(f, p) /\ p \in DOMAIN buffer
        BY <1>1, <2>1, <3>1, <3>2, <3>5 DEF InStep
      <3>6. CASE Carries(f, p) /\ p \notin DOMAIN buffer
        <4>1. BringsLastWord(f, p)
          BY <3>1, <3>6 DEF InStep
        <4>2. AnsweredOk(f) /\ p \in posts[f].known /\ recorded[p] = wish[p].state
              /\ posts[f].items[p].state = wish[p].state
          BY <1>1, <1>4, <4>1 DEF BringsLastWord, AnsweredPermanent, AnsweredOk, isPermanent
        <4>3. saved'[p] = posts[f].items[p].state
          BY <3>1, <3>6, <4>2 DEF AnsweredOk, remember, Carries
        <4>4. \A g \in Posts : ~Carries(g, p)'
          BY <3>1, <3>2, <3>6 DEF InStep
        <4> QED BY <1>1, <2>1, <3>6, <4>2, <4>3, <4>4 DEF InStep
      <3> QED BY <3>4, <3>5, <3>6
    <2> QED BY <1>1, <1>2, <2>2 DEF BufferInv
  <1> QED BY <1>3, <1>4 DEF Answer

LEMMA NoAnswerKeeps ==
    ASSUME BufferInv, NEW f \in Posts, NoAnswer(f)
    PROVE  BufferInv'
  <1>1. Retry(f) /\ UNCHANGED <<recorded, listed, wish, unsure>> /\ PostsOK
    BY DEF NoAnswer, history, BufferInv
  <1>2. CASE posts[f].phase = "handled"
    <2>1. posts' = [posts EXCEPT ![f] = NoPost]
      BY <1>2 DEF NoAnswer, BufferInv, PostsOK
    <2> QED BY <1>1, <2>1, PostFreed, RetryKeeps
  <1>3. CASE posts[f].phase # "handled"
    <2>1. PICK old : old = posts[f]
      OBVIOUS
    <2>2. posts' = [posts EXCEPT ![f] = [old EXCEPT !["waited"] = FALSE]]
      BY <1>3, <2>1, Zenon DEF NoAnswer
    <2>3. PICK r : r = [old EXCEPT !["waited"] = FALSE]
      OBVIOUS
    <2>4. {"phase", "items", "waited"} \subseteq DOMAIN old /\ (old.phase = "free" => DOMAIN old.items = {})
      BY <1>1, <2>1 DEF PostsOK
    <2>5. DOMAIN r = DOMAIN old /\ r.phase = old.phase /\ r.items = old.items
      BY <2>3, <2>4
    <2>6. PostsOK' /\ posts'[f] = r /\ \A g \in Posts : g # f => posts'[g] = posts[g]
      <3>1. posts' = [posts EXCEPT ![f] = r]
        BY <2>2, <2>3, Zenon
      <3> QED BY <1>1, <2>4, <2>5, <3>1, OnePostChanges
    <2>7. DOMAIN posts'[f].items \subseteq DOMAIN posts[f].items
      BY <2>1, <2>5, <2>6
    <2> QED BY <1>1, <2>6, <2>7, RetryKeeps
  <1> QED BY <1>2, <1>3

\* A post that is handled: whoever waits for its answer will have it.
LEMMA HandledForm ==
    ASSUME PostsOK, NEW f \in Posts, posts[f].phase = "sent", NEW outcome, Handled(f, outcome)
    PROVE  /\ PostsOK' /\ \A g \in Posts : g # f => posts'[g] = posts[g]
           /\ DOMAIN posts'[f].items \subseteq DOMAIN posts[f].items
           /\ posts[f].waited =>
                /\ posts'[f].phase = "handled" /\ posts'[f].items = posts[f].items /\ posts'[f].waited
                /\ posts'[f].outcome = outcome /\ posts'[f].known = DOMAIN posts[f].items \cap listed
  <1>1. CASE posts[f].waited
    <2>1. PICK r : r = [phase |-> "handled", items |-> posts[f].items, waited |-> TRUE,
                        outcome |-> outcome, known |-> DOMAIN posts[f].items \cap listed]
      OBVIOUS
    <2>2. posts' = [posts EXCEPT ![f] = r]
      BY <1>1, <2>1 DEF Handled, PostsOK
    <2>3. /\ {"phase", "items", "waited"} \subseteq DOMAIN r /\ r.phase = "handled" /\ r.items = posts[f].items
          /\ r.waited = TRUE /\ r.outcome = outcome /\ r.known = DOMAIN posts[f].items \cap listed
      BY <2>1
    <2>4. PostsOK' /\ posts'[f] = r /\ \A g \in Posts : g # f => posts'[g] = posts[g]
      BY <2>2, <2>3, OnePostChanges
    <2> QED BY <2>3, <2>4
  <1>2. CASE ~posts[f].waited
    <2>1. posts' = [posts EXCEPT ![f] = NoPost]
      BY <1>2 DEF Handled, PostsOK
    <2> QED BY <1>2, <2>1, PostFreed
  <1> QED BY <1>1, <1>2

LEMMA HandlingKeeps ==
    ASSUME BufferInv, NEW f \in Posts, posts[f].phase = "sent", NEW outcome, Handled(f, outcome),
           UNCHANGED <<pageVars, listed, wish, unsure>>,
           Record(f) \/ UNCHANGED recorded,
           outcome = "ok" => Record(f),
           outcome = "refused" => DOMAIN posts[f].items \cap listed = {}
    PROVE  BufferInv'
  <1>1. PostsOK /\ UNCHANGED <<saved, buffer>>
    BY DEF BufferInv, pageVars
  <1>2. /\ PostsOK' /\ \A g \in Posts : g # f => posts'[g] = posts[g]
        /\ DOMAIN posts'[f].items \subseteq DOMAIN posts[f].items
        /\ posts[f].waited =>
             /\ posts'[f].phase = "handled" /\ posts'[f].items = posts[f].items /\ posts'[f].waited
             /\ posts'[f].outcome = outcome /\ posts'[f].known = DOMAIN posts[f].items \cap listed
    BY <1>1, HandledForm
  <1>3. \A p \in Products : ~Carries(f, p) => recorded'[p] = recorded[p]
    BY DEF Record, Carries
  <1>4. ASSUME NEW p \in listed \ unsure PROVE InStep(p)'
    <2>1. InStep(p) /\ p \in Products
      BY <1>4 DEF BufferInv
    <2>2. \A g \in Posts : (Carries(g, p)' => Carries(g, p)) /\ (g # f => (Carries(g, p)' <=> Carries(g, p)))
      BY <1>2 DEF Carries
    <2>3. CASE p \in DOMAIN buffer
      BY <1>1, <2>1, <2>2, <2>3 DEF InStep
    <2>4. CASE p \notin DOMAIN buffer /\ ~Carries(f, p)
      <3>1. recorded'[p] = recorded[p] /\ \A g \in Posts : Carries(g, p)' <=> Carries(g, p)
        BY <1>3, <2>1, <2>2, <2>4
      <3>2. \A g \in Posts : Carries(g, p) => (BringsLastWord(g, p)' <=> BringsLastWord(g, p))
        BY <1>2, <2>4, <3>1 DEF BringsLastWord
      <3> QED BY <1>1, <2>1, <2>4, <3>1, <3>2 DEF InStep
    <2>5. CASE p \notin DOMAIN buffer /\ Carries(f, p)
      <3>1. BringsLastWord(f, p)
        BY <2>1, <2>5 DEF InStep
      <3>2. posts[f].waited /\ posts[f].items[p].state = wish[p].state
        BY <3>1 DEF BringsLastWord
      <3>3. Carries(f, p)' /\ \A g \in Posts : Carries(g, p)' => g = f
        BY <1>2, <2>1, <2>2, <2>5, <3>2 DEF InStep, Carries
      <3>4. p \in DOMAIN posts[f].items \cap listed /\ outcome # "refused"
        BY <1>4, <2>5 DEF Carries
      <3>5. outcome = "ok" => recorded'[p] = wish[p].state
        BY <2>1, <3>2, <3>4 DEF Record
      <3>6. BringsLastWord(f, p)'
        BY <1>2, <3>2, <3>4, <3>5 DEF BringsLastWord
      <3> QED BY <1>1, <2>5, <3>3, <3>6 DEF InStep
    <2> QED BY <2>3, <2>4, <2>5
  <1> QED BY <1>2, <1>4 DEF BufferInv

LEMMA HandleKeeps ==
    ASSUME BufferInv, NEW f \in Posts, Handle(f) \/ HandleFails(f)
    PROVE  BufferInv'
  <1>1. posts[f].phase = "sent" /\ UNCHANGED <<pageVars, listed, wish, unsure>>
    BY DEF Handle, HandleFails, history
  <1>2. CASE Handled(f, "refused") /\ DOMAIN posts[f].items \cap listed = {} /\ UNCHANGED recorded
    BY <1>1, <1>2, HandlingKeeps
  <1>3. CASE Handled(f, "ok") /\ Record(f)
    BY <1>1, <1>3, HandlingKeeps
  <1>4. CASE Handled(f, "failed") /\ (Record(f) \/ UNCHANGED recorded)
    BY <1>1, <1>4, HandlingKeeps
  <1> QED BY <1>2, <1>3, <1>4 DEF Handle, HandleFails

LEMMA BufferStepKeepsInv ==
    ASSUME BufferInv, [BufferNext]_bufferVars
    PROVE  BufferInv'
  <1>1. CASE UNCHANGED bufferVars
    <2>1. UNCHANGED <<saved, buffer, posts, recorded, listed, wish, unsure>>
      BY <1>1 DEF bufferVars, pageVars, history
    <2>2. ASSUME NEW p, InStep(p) PROVE InStep(p)'
      BY <2>1, <2>2 DEF InStep, Carries, BringsLastWord
    <2> QED BY <2>1, <2>2 DEF BufferInv, PostsOK
  <1> QED BY <1>1, TapKeeps, TimerFiresKeeps, HideKeeps, ReloadKeeps, DelistKeeps, AnswerKeeps, NoAnswerKeeps,
             HandleKeeps DEF BufferNext

\* Wherever a tap is, in the buffer or on its way, it is there as the visitor's last word.
THEOREM BufferInvHolds == BufferSpec => []BufferInv
  <1> QED BY BufferInitInv, BufferStepKeepsInv, PTL DEF BufferSpec

\* Once nothing waits and nothing is on its way, screen, storage and sheet all say what the visitor tapped
\* last, for any number of taps, posts and faults and any size of batch, of a product that is listed and
\* whose last intents never travelled side by side.
THEOREM ScreenSettlesHolds == BufferSpec => []ScreenSettles
  <1>1. BufferInv => ScreenSettles
    <2> SUFFICES ASSUME BufferInv, DOMAIN buffer \cup Carried = {}, NEW p \in listed \ unsure, wish[p].tap > 0
                 PROVE  saved[p] = wish[p].state /\ recorded[p] = wish[p].state
      BY DEF ScreenSettles
    <2>1. InStep(p) /\ p \notin DOMAIN buffer /\ \A f \in Posts : ~Carries(f, p)
      BY DEF BufferInv, Carries, Carried
    <2> QED BY <2>1 DEF InStep
  <1> QED BY <1>1, BufferInvHolds, PTL

\* What is buffered leaves some day: a timer is set for it, after a tap, a post that failed and one
\* that was never answered (votes.ts schedule, flush).
BufferHasATimer == DOMAIN buffer # {} => timer

LEMMA BufferHasATimerStep == BufferHasATimer /\ [BufferNext]_bufferVars => BufferHasATimer'
  <1> SUFFICES ASSUME BufferHasATimer, [BufferNext]_bufferVars PROVE BufferHasATimer'
    OBVIOUS
  <1>0. DOMAIN Empty = {}
    BY DEF Empty
  <1>1. ASSUME NEW items, flush(items) \/ schedule(items) PROVE BufferHasATimer'
    BY <1>0, <1>1 DEF flush, schedule, BufferHasATimer
  <1>2. ASSUME NEW p \in Products, Tap(p) PROVE BufferHasATimer'
    BY <1>1, <1>2 DEF Tap
  <1>3. CASE TimerFires
    BY <1>1, <1>3 DEF TimerFires
  <1>4. CASE Hide
    BY <1>0, <1>4 DEF Hide, BufferHasATimer
  <1>5. CASE Reload
    BY <1>5 DEF Reload, BufferHasATimer
  <1>6. CASE Delist \/ UNCHANGED bufferVars
    BY <1>6 DEF Delist, bufferVars, pageVars, BufferHasATimer
  <1>7. ASSUME NEW f \in Posts, Answer(f) \/ NoAnswer(f) \/ Handle(f) \/ HandleFails(f) PROVE BufferHasATimer'
    BY <1>7 DEF Answer, AnsweredOk, AnsweredPermanent, Retry, NoAnswer, Handle, HandleFails, pageVars, BufferHasATimer
  <1> QED BY <1>2, <1>3, <1>4, <1>5, <1>6, <1>7 DEF BufferNext

\* A tap is never left in the buffer with nothing to send it: for any products, batches and faults.
THEOREM BufferHasATimerHolds == BufferSpec => []BufferHasATimer
  <1>1. BufferInit => BufferHasATimer
    BY DEF BufferInit, BufferHasATimer
  <1> QED BY <1>1, BufferHasATimerStep, PTL DEF BufferSpec

-----------------------------------------------------------------------------
(* The catalogue page of a buyer                                           *)

ChipNames == {Chips[i] : i \in DOMAIN Chips}
TabNames == ChipNames \cup {"", "gone", Shelves[1]}
HistoryEntry == [path : Cards \cup {0}, state : Cards \cup {0}, tab : TabNames]

\* Under a popup, and where a way back leads, lies the catalogue with the collection that is chosen.
UnderIt == at = 2 /\ entries[1].path = 0 /\ Opened(entries[1].tab) = active

\* As long as nothing was pressed in a hurry: a popup is the entry shown and knows where it was opened
\* from, and one way back at most is still to go, to the catalogue.
NothingAstray ==
    /\ going = 0 => rug = entries[at].path
    /\ going = 0 /\ rug = 0 => at = 1 /\ Opened(entries[1].tab) = active
    /\ rug # 0 => going = 0 /\ returnTo /\ entries[at].state # 0 /\ UnderIt
    /\ going # 0 => going = 1 /\ rug = 0 /\ UnderIt

\* There is an entry to go back to for every way back that is still to go.
HistoryHolds ==
    /\ entries \in Seq(HistoryEntry) /\ at \in 1 .. Len(entries)
    /\ going \in Nat /\ going < at /\ (returnTo => going < at - 1)

PageInv ==
    /\ active \in ChipNames /\ rug \in Cards \cup {0}
    /\ HistoryHolds /\ SearchInStep /\ PopupHasItsAddress
    /\ ~astray => NothingAstray

LEMMA ChipFacts ==
    /\ Chips \in Seq(ChipNames) /\ Len(Chips) >= 1
    /\ \A i \in DOMAIN Shelves : Shelves[i] \in ChipNames
    /\ \A name : Opened(name) \in ChipNames
    /\ \A name \in ChipNames : Opened(name) = name
  <1> DEFINE S == {Shelves[i] : i \in DOMAIN Shelves} \cup {All}
  <1>1. Shelves \in Seq(S) /\ All \in S
    BY CatalogueConstants
  <1> HIDE DEF S
  <1>2. /\ Chips \in Seq(S) /\ Len(Chips) = Len(Shelves) + 1
        /\ \A i \in 1 .. Len(Shelves) : Chips[i] = Shelves[i]
    BY <1>1, AppendProperties DEF Chips
  <1>3. Len(Shelves) \in Nat /\ DOMAIN Shelves = 1 .. Len(Shelves) /\ DOMAIN Chips = 1 .. Len(Chips)
    BY <1>1, <1>2, LenProperties
  <1>4. \A i \in DOMAIN Chips : Chips[i] \in ChipNames
    BY DEF ChipNames
  <1>5. \A i \in DOMAIN Shelves : Shelves[i] \in ChipNames
    BY <1>2, <1>3, <1>4
  <1>6. Chips \in Seq(ChipNames)
    <2>1. Chips = [i \in 1 .. Len(Chips) |-> Chips[i]]
      BY <1>2, <1>3
    <2>2. Chips \in [1 .. Len(Chips) -> ChipNames]
      BY <1>3, <1>4, <2>1
    <2> QED BY <1>2, <1>3, <2>2, SeqDef
  <1>7. Chips[1] \in ChipNames
    BY <1>2, <1>3, <1>4
  <1>8. \A name : Opened(name) \in ChipNames
    BY <1>7 DEF Opened, ChipNames
  <1>9. \A name \in ChipNames : Opened(name) = name
    BY DEF Opened, ChipNames
  <1> QED BY <1>2, <1>3, <1>5, <1>6, <1>8, <1>9

\* There is always a page.
LEMMA PagesOfSome ==
    ASSUME NEW M \in SUBSET Cards, M # {}
    PROVE  1 \in 1 .. ((Cardinality(M) + PAGE_SIZE - 1) \div PAGE_SIZE)
  <1>1. IsFiniteSet(M)
    BY CatalogueConstants, FS_Subset
  <1>2. Cardinality(M) \in Nat /\ Cardinality(M) # 0
    BY <1>1, FS_CardinalityType, FS_EmptySet
  <1>3. PICK n \in Nat : n = Cardinality(M) + PAGE_SIZE - 1 /\ n >= PAGE_SIZE
    BY <1>2, CatalogueConstants
  <1>4. PAGE_SIZE \in Nat /\ PAGE_SIZE > 0
    BY CatalogueConstants
  <1>5. n \div PAGE_SIZE \in Nat /\ n \div PAGE_SIZE >= 1
    BY <1>3, <1>4
  <1> QED BY <1>3, <1>5

LEMMA FirstPage == 1 \in 1 .. PagesOf /\ 1 \in 1 .. PagesOf'
  <1>1. Matched \in SUBSET Cards /\ Matched' \in SUBSET Cards
    BY DEF Matched
  <1>2. Matched # {} => 1 \in 1 .. ((Cardinality(Matched) + PAGE_SIZE - 1) \div PAGE_SIZE)
    BY <1>1, PagesOfSome
  <1>3. Matched' # {} => 1 \in 1 .. ((Cardinality(Matched') + PAGE_SIZE - 1) \div PAGE_SIZE)
    BY <1>1, PagesOfSome
  <1> QED BY <1>2, <1>3 DEF PagesOf

LEMMA OneEntry == ASSUME NEW entry \in HistoryEntry
   PROVE <<entry>> \in Seq(HistoryEntry) /\ Len(<<entry>>) = 1 /\ <<entry>>[1] = entry
  OBVIOUS

LEMMA PageInitInv == PageInit => PageInv
  <1> SUFFICES ASSUME PageInit PROVE PageInv
    OBVIOUS
  <1>1. PICK name \in TabNames : entries = <<[path |-> 0, state |-> 0, tab |-> name]>>
    BY DEF PageInit, TabNames
  <1>2. PICK entry : entry = [path |-> 0, state |-> 0, tab |-> name]
    OBVIOUS
  <1>3. entry \in HistoryEntry /\ entry.path = 0 /\ entry.tab = name
    BY <1>2 DEF HistoryEntry
  <1>4. entries \in Seq(HistoryEntry) /\ Len(entries) = 1 /\ entries[1] = entry
    <2>1. entries = <<entry>>
      BY <1>1, <1>2
    <2> QED BY <1>3, <2>1, OneEntry
  <1>5. /\ at = 1 /\ active = Opened(name) /\ page = 1 /\ rug = 0 /\ returnTo = FALSE /\ going = 0
    <2>1. entries[1].tab = name
      BY <1>3, <1>4
    <2> QED BY <2>1, Zenon DEF PageInit
  <1>6. SearchInStep
    <2>1. page \in 1 .. PagesOf
      BY <1>5, FirstPage
    <2>2. query = "" /\ typed = ""
      BY Zenon DEF PageInit
    <2>3. trimmed("") = ""
      BY Zenon DEF trimmed
    <2> QED BY <2>1, <2>2, <2>3, Zenon DEF SearchInStep
  <1>7. NothingAstray /\ PopupHasItsAddress
    BY <1>3, <1>4, <1>5 DEF PopupHasItsAddress, NothingAstray
  <1>8. active \in ChipNames /\ rug \in Cards \cup {0}
    BY <1>5, ChipFacts
  <1>9. HistoryHolds
    <2>1. at \in 1 .. Len(entries) /\ going \in Nat /\ going < at
      BY <1>4, <1>5
    <2>2. ~returnTo
      BY <1>5, Zenon
    <2> QED BY <1>4, <2>1, <2>2, Zenon DEF HistoryHolds
  <1> QED BY <1>6, <1>7, <1>8, <1>9 DEF PageInv

LEMMA EntryFacts ==
    ASSUME HistoryHolds
    PROVE  /\ Len(entries) \in Nat /\ DOMAIN entries = 1 .. Len(entries) /\ at \in Nat /\ at >= 1 /\ at <= Len(entries)
           /\ \A i \in 1 .. Len(entries) : entries[i] \in HistoryEntry
  <1>1. entries \in Seq(HistoryEntry) /\ at \in 1 .. Len(entries)
    BY DEF HistoryHolds
  <1> QED BY <1>1, LenProperties, ElementOfSeq

\* What is pressed under way back leaves the page astray.
LEMMA HurriedFacts == ASSUME Hurried, ~astray', going \in Nat PROVE ~astray /\ going = 0
  <1>1. ~astray /\ ~(going > 0)
    BY Zenon DEF Hurried
  <1> QED BY <1>1

\* A collection is chosen: the entry shown names it.
LEMMA ChooseKeeps ==
    ASSUME PageInv, NEW name \in ChipNames, rug = 0, choose(name)
    PROVE  PageInv'
  <1>1. /\ active' = name /\ page' = 1 /\ Hurried /\ UNCHANGED <<rug, returnTo, at, going>>
        /\ entries' = [entries EXCEPT ![at] = [entries[at] EXCEPT !["state"] = 0, !["tab"] = name]]
    BY Zenon DEF choose, setActive
  <1>2. HistoryHolds
    BY DEF PageInv
  <1>3. PICK old : old = entries[at]
    OBVIOUS
  <1>4. old \in HistoryEntry
    BY <1>2, <1>3, EntryFacts
  <1>5. PICK new : new = [old EXCEPT !["state"] = 0, !["tab"] = name]
    OBVIOUS
  <1>6. new \in HistoryEntry /\ new.path = old.path /\ new.tab = name
    BY <1>4, <1>5 DEF HistoryEntry, TabNames
  <1>7. entries' = [entries EXCEPT ![at] = new]
    BY <1>1, <1>3, <1>5
  <1>8. HistoryHolds'
    <2>1. entries \in Seq(HistoryEntry) /\ at \in 1 .. Len(entries)
      BY <1>2 DEF HistoryHolds
    <2>2. entries' \in Seq(HistoryEntry) /\ Len(entries') = Len(entries)
      BY <1>6, <1>7, <2>1, ExceptSeq
    <2> QED BY <1>1, <1>2, <2>2 DEF HistoryHolds
  <1>9. SearchInStep'
    <2>1. page' \in 1 .. PagesOf'
      BY <1>1, FirstPage
    <2>2. \/ query' = "" /\ typed' = "" /\ searching' = FALSE
          \/ UNCHANGED <<query, typed, searching>>
      BY Zenon DEF choose
    <2>3. query = trimmed(typed) /\ (~searching => typed = "")
      BY Zenon DEF PageInv, SearchInStep
    <2>4. trimmed("") = ""
      BY Zenon DEF trimmed
    <2>5. query' = trimmed(typed') /\ (~searching' => typed' = "")
      <3>1. CASE query' = "" /\ typed' = "" /\ searching' = FALSE
        BY <2>4, <3>1, Zenon
      <3>2. CASE UNCHANGED <<query, typed, searching>>
        BY <2>3, <3>2, Zenon
      <3> QED BY <2>2, <3>1, <3>2, Zenon
    <2> QED BY <2>1, <2>5, Zenon DEF SearchInStep
  <1>10. ASSUME ~astray'
         PROVE  NothingAstray'
    <2>1. ~astray /\ going = 0
      BY <1>1, <1>2, <1>10, HurriedFacts DEF HistoryHolds
    <2>2. rug = entries[at].path /\ at = 1
      BY <2>1 DEF PageInv, NothingAstray
    <2>3. entries'[1] = new
      BY <1>2, <1>7, <2>2, EntryFacts
    <2>4. Opened(entries'[1].tab) = active'
      BY <1>1, <1>6, <2>3, ChipFacts
    <2> QED BY <1>1, <1>3, <1>6, <2>1, <2>2, <2>3, <2>4 DEF NothingAstray, Opened
  <1>11. PopupHasItsAddress' /\ active' \in ChipNames /\ rug' \in Cards \cup {0}
    BY <1>1 DEF PopupHasItsAddress
  <1> QED BY <1>8, <1>9, <1>10, <1>11 DEF PageInv

LEMMA SamePages == ASSUME UNCHANGED <<active, query>> PROVE PagesOf' = PagesOf
  <1>1. \A card : matches(card)' <=> matches(card)
    BY Zenon DEF matches
  <1>2. Matched' = Matched
    BY <1>1 DEF Matched
  <1> QED BY <1>2 DEF PagesOf

\* A step that leaves the popup, the history and the collection alone.
LEMMA GridKeeps ==
    ASSUME PageInv, SearchInStep', UNCHANGED <<active, popupVars>>
    PROVE  PageInv'
  <1>1. /\ active' = active /\ rug' = rug /\ returnTo' = returnTo /\ entries' = entries
        /\ at' = at /\ going' = going /\ astray' = astray
    BY Zenon DEF popupVars
  <1>2. active' \in ChipNames /\ rug' \in Cards \cup {0}
    BY <1>1 DEF PageInv
  <1>3. HistoryHolds' /\ PopupHasItsAddress'
    BY <1>1 DEF PageInv, HistoryHolds, PopupHasItsAddress
  <1>4. ~astray' => NothingAstray'
    <2>1. ASSUME ~astray' PROVE NothingAstray
      BY <1>1, <2>1, Zenon DEF PageInv
    <2> QED BY <1>1, <2>1 DEF NothingAstray, UnderIt, Opened
  <1> QED BY <1>2, <1>3, <1>4 DEF PageInv

\* The grid hears what stands in the field, and starts over when that changed.
LEMMA QueryKeeps ==
    ASSUME PageInv, NEW text, setQuery(text), ~searching' => text = ""
    PROVE  PageInv'
  <1>1. /\ typed' = text /\ query' = trimmed(text) /\ UNCHANGED <<active, popupVars>>
        /\ page' = IF query' = query THEN page ELSE 1
    BY Zenon DEF setQuery, emit
  <1>2. page' \in 1 .. PagesOf'
    <2>1. CASE query' = query
      BY <1>1, <2>1, SamePages DEF PageInv, SearchInStep
    <2>2. CASE query' # query
      BY <1>1, <2>2, FirstPage
    <2> QED BY <2>1, <2>2
  <1>3. query' = trimmed(typed')
    BY <1>1, Zenon
  <1>4. ~searching' => typed' = ""
    BY <1>1, Zenon
  <1>5. SearchInStep'
    BY <1>2, <1>3, <1>4, Zenon DEF SearchInStep
  <1> QED BY <1>1, <1>5, GridKeeps

LEMMA SearchKeeps ==
    ASSUME PageInv, ToggleSearch \/ Type \/ ClearField \/ EscapeField \/ LeaveField
    PROVE  PageInv'
  <1>1. CASE collapse
    BY <1>1, QueryKeeps, Zenon DEF collapse
  <1>2. ASSUME NEW text, searching, UNCHANGED searching, setQuery(text)
        PROVE  PageInv'
    BY <1>2, QueryKeeps, Zenon
  <1>3. CASE searching' = TRUE /\ UNCHANGED <<active, query, typed, page, popupVars>>
    <2>1. page' \in 1 .. PagesOf'
      <3>1. page' = page /\ UNCHANGED <<active, query>>
        BY <1>3, Zenon
      <3> QED BY <3>1, SamePages DEF PageInv, SearchInStep
    <2>2. query' = trimmed(typed')
      BY <1>3, Zenon DEF PageInv, SearchInStep
    <2>3. SearchInStep'
      BY <1>3, <2>1, <2>2, Zenon DEF SearchInStep
    <2> QED BY <1>3, <2>3, GridKeeps, Zenon
  <1>4. CASE ToggleSearch
    BY <1>1, <1>3, <1>4, Zenon DEF ToggleSearch
  <1>5. CASE Type
    BY <1>2, <1>5, Zenon DEF Type
  <1>6. CASE ClearField
    BY <1>2, <1>6, Zenon DEF ClearField
  <1>7. CASE EscapeField
    BY <1>1, <1>2, <1>7, Zenon DEF EscapeField
  <1>8. CASE LeaveField
    BY <1>1, <1>8, Zenon DEF LeaveField
  <1> QED BY <1>4, <1>5, <1>6, <1>7, <1>8

LEMMA PagerKeeps ==
    ASSUME PageInv, ToggleMenu \/ TurnPage
    PROVE  PageInv'
  <1>1. UNCHANGED <<active, query, typed, searching>> /\ UNCHANGED popupVars
    BY Zenon DEF ToggleMenu, TurnPage
  <1>2. page' \in 1 .. PagesOf'
    <2>1. PagesOf' = PagesOf
      BY <1>1, SamePages
    <2>2. CASE ToggleMenu
      <3>1. page' = page
        BY <2>2, Zenon DEF ToggleMenu
      <3> QED BY <2>1, <3>1 DEF PageInv, SearchInStep
    <2>3. CASE TurnPage
      <3>1. page' \in 1 .. PagesOf
        BY <2>3 DEF TurnPage
      <3> QED BY <2>1, <3>1
    <2> QED BY <2>2, <2>3
  <1>3. query' = trimmed(typed') /\ (~searching' => typed' = "")
    <2>1. query = trimmed(typed) /\ (~searching => typed = "")
      BY Zenon DEF PageInv, SearchInStep
    <2> QED BY <1>1, <2>1, Zenon
  <1>4. SearchInStep'
    BY <1>2, <1>3, Zenon DEF SearchInStep
  <1> QED BY <1>1, <1>4, GridKeeps, Zenon

LEMMA CollectionKeeps ==
    ASSUME PageInv, PressTab \/ PickInMenu \/ OpenNext
    PROVE  PageInv'
  <1>1. CASE PressTab \/ PickInMenu
    <2>1. PICK i \in DOMAIN Chips : rug = 0 /\ choose(Chips[i])
      BY <1>1, Zenon DEF PressTab, PickInMenu, Press
    <2>2. Chips[i] \in ChipNames
      BY DEF ChipNames
    <2> QED BY <2>1, <2>2, ChooseKeeps
  <1>2. CASE OpenNext
    <2>1. rug = 0 /\ choose(Shelves[CHOOSE i \in Following : TRUE]) /\ Following # {}
      BY <1>2, Zenon DEF OpenNext, Press, nextOffered
    <2>2. PICK i : i = CHOOSE j \in Following : TRUE
      OBVIOUS
    <2>3. i \in Following
      BY <2>1, <2>2
    <2>4. Shelves \in Seq({Shelves[j] : j \in DOMAIN Shelves})
      BY CatalogueConstants
    <2>5. i \in DOMAIN Shelves
      BY <2>3, <2>4, LenProperties DEF Following
    <2>6. Shelves[i] \in ChipNames
      BY <2>5, ChipFacts
    <2>7. choose(Shelves[i])
      BY <2>1, <2>2, Zenon
    <2> QED BY <2>1, <2>6, <2>7, ChooseKeeps
  <1> QED BY <1>1, <1>2

\* What the popup's steps leave alone is in step already.
LEMMA GridStays == ASSUME SearchInStep, UNCHANGED <<active, query, typed, searching, page>> PROVE SearchInStep'
  <1>1. page' \in 1 .. PagesOf'
    <2>1. page' = page /\ UNCHANGED <<active, query>>
      BY Zenon
    <2> QED BY <2>1, SamePages DEF SearchInStep
  <1>2. query = trimmed(typed) /\ (~searching => typed = "")
    BY Zenon DEF SearchInStep
  <1>3. query' = trimmed(typed') /\ (~searching' => typed' = "")
    BY <1>2, Zenon
  <1> QED BY <1>1, <1>3, Zenon DEF SearchInStep

LEMMA OpenKeeps == ASSUME PageInv, OpenRug PROVE PageInv'
  <1>1. /\ rug = 0 /\ Hurried /\ UNCHANGED <<active, query, typed, searching, page>>
        /\ returnTo' = TRUE /\ at' = at + 1 /\ going' = going
    BY Zenon DEF OpenRug, Press
  <1>2. PICK card \in Cards :
          /\ rug' = card
          /\ entries' = Append(SubSeq(entries, 1, at), [path |-> card, state |-> card, tab |-> active])
    BY DEF OpenRug, OnPage, Matched
  <1>3. HistoryHolds /\ active \in ChipNames /\ SearchInStep
    BY DEF PageInv
  <1>4. card # 0 /\ card \in Nat
    BY CatalogueConstants
  <1>5. PICK new : new = [path |-> card, state |-> card, tab |-> active]
    OBVIOUS
  <1>6. new \in HistoryEntry /\ new.path = card /\ new.state = card
    BY <1>3, <1>5 DEF HistoryEntry, TabNames
  <1>7. PICK kept : kept = SubSeq(entries, 1, at)
    OBVIOUS
  <1>8. /\ entries \in Seq(HistoryEntry) /\ at \in 1 .. Len(entries) /\ going \in Nat /\ going < at
        /\ Len(entries) \in Nat /\ at \in Nat /\ at >= 1
    BY <1>3, EntryFacts DEF HistoryHolds
  <1>9. /\ kept \in Seq(HistoryEntry) /\ Len(kept) = at
        /\ \A i \in 1 .. at : kept[i] = entries[i]
    BY <1>7, <1>8, SubSeqProperties
  <1>10. /\ entries' \in Seq(HistoryEntry) /\ Len(entries') = at + 1
         /\ entries'[at + 1] = new /\ \A i \in 1 .. at : entries'[i] = entries[i]
    <2>1. entries' = Append(kept, new)
      BY <1>2, <1>5, <1>7
    <2> QED BY <1>6, <1>8, <1>9, <2>1, AppendProperties
  <1>11. HistoryHolds'
    <2>1. at' \in 1 .. Len(entries') /\ going' \in Nat /\ going' < at' /\ going' < at' - 1
      BY <1>1, <1>8, <1>10
    <2> QED BY <1>10, <2>1 DEF HistoryHolds
  <1>12. SearchInStep'
    BY <1>1, <1>3, GridStays
  <1>13. entries'[at'] = new /\ rug' = card /\ active' = active
    BY <1>1, <1>2, <1>10, Zenon
  <1>14. PopupHasItsAddress'
    BY <1>6, <1>13 DEF PopupHasItsAddress
  <1>15. ASSUME ~astray'
         PROVE  NothingAstray'
    <2>1. ~astray /\ going = 0
      BY <1>1, <1>8, <1>15, HurriedFacts
    <2>2. NothingAstray
      BY <2>1, Zenon DEF PageInv
    <2>3. entries[at].path = 0 /\ at = 1 /\ Opened(entries[1].tab) = active
      BY <1>1, <2>1, <2>2 DEF NothingAstray
    <2>4. entries'[1] = entries[1] /\ at' = 2 /\ going' = 0 /\ rug' # 0
      BY <1>1, <1>4, <1>10, <1>13, <2>1, <2>3
    <2>5. UnderIt'
      BY <1>13, <2>3, <2>4 DEF UnderIt, Opened
    <2>6. entries'[at'].state # 0 /\ rug' = entries'[at'].path
      BY <1>4, <1>6, <1>13
    <2>7. returnTo'
      BY <1>1, Zenon
    <2> QED BY <2>4, <2>5, <2>6, <2>7 DEF NothingAstray
  <1> QED BY <1>3, <1>11, <1>12, <1>13, <1>14, <1>15 DEF PageInv

LEMMA CloseKeeps == ASSUME PageInv, CloseRug PROVE PageInv'
  <1>1. /\ rug # 0 /\ rug' = 0 /\ ~returnTo' /\ UNCHANGED <<gridVars, entries, at, astray>>
        /\ going' = IF returnTo /\ entries[at].state # 0 THEN going + 1 ELSE going
    BY Zenon DEF CloseRug, onClose
  <1>2. UNCHANGED <<active, query, typed, searching, page>>
    BY <1>1, Zenon DEF gridVars
  <1>3. HistoryHolds /\ SearchInStep /\ active' \in ChipNames
    <2>1. active' = active
      BY <1>2, Zenon
    <2> QED BY <2>1 DEF PageInv
  <1>4. HistoryHolds'
    <2>1. entries' \in Seq(HistoryEntry) /\ at' \in 1 .. Len(entries')
      BY <1>1, <1>3 DEF HistoryHolds
    <2>2. going \in Nat /\ going < at /\ at \in Nat
      BY <1>3, EntryFacts DEF HistoryHolds
    <2>3. CASE returnTo
      <3>1. going < at - 1
        BY <1>3, <2>3, Zenon DEF HistoryHolds
      <3>2. going' \in Nat /\ going' < at'
        BY <1>1, <2>2, <3>1
      <3> QED BY <1>1, <2>1, <3>2, Zenon DEF HistoryHolds
    <2>4. CASE ~returnTo
      <3>1. going' = going /\ at' = at
        BY <1>1, <2>4, Zenon
      <3> QED BY <1>1, <2>1, <2>2, <3>1, Zenon DEF HistoryHolds
    <2> QED BY <2>3, <2>4
  <1>5. SearchInStep'
    BY <1>2, <1>3, GridStays
  <1>6. ASSUME ~astray'
        PROVE  NothingAstray'
    <2>1. NothingAstray
      BY <1>1, <1>6, Zenon DEF PageInv
    <2>2. going = 0 /\ returnTo /\ entries[at].state # 0 /\ UnderIt
      BY <1>1, <2>1, Zenon DEF NothingAstray
    <2>3. going' = 1
      BY <1>1, <2>2
    <2>4. active' = active /\ entries' = entries /\ at' = at
      BY <1>1, <1>2, Zenon
    <2>5. UnderIt'
      BY <2>2, <2>4 DEF UnderIt, Opened
    <2> QED BY <1>1, <2>3, <2>5 DEF NothingAstray
  <1>7. PopupHasItsAddress' /\ rug' \in Cards \cup {0}
    BY <1>1 DEF PopupHasItsAddress
  <1> QED BY <1>3, <1>4, <1>5, <1>6, <1>7 DEF PageInv

LEMMA MoveKeeps == ASSUME PageInv, GoesBack \/ Back \/ Forward PROVE PageInv'
  <1>1. rug' = 0 /\ ~returnTo' /\ UNCHANGED <<active, query, typed, searching, page>> /\ entries' = entries
    BY Zenon DEF GoesBack, Back, Forward, onPopState, gridVars
  <1>2. HistoryHolds /\ SearchInStep /\ active' \in ChipNames
    <2>1. active' = active
      BY <1>1, Zenon
    <2> QED BY <2>1 DEF PageInv
  <1>3. /\ going \in Nat /\ going < at /\ at \in Nat /\ at >= 1 /\ at <= Len(entries)
        /\ Len(entries) \in Nat
    BY <1>2, EntryFacts DEF HistoryHolds
  <1>4. \/ going > 0 /\ going' = going - 1 /\ at' = at - 1 /\ astray' = astray
        \/ going = 0 /\ going' = going /\ at > 1 /\ at' = at - 1 /\ astray' = astray
        \/ going = 0 /\ going' = going /\ at < Len(entries) /\ at' = at + 1 /\ astray' = TRUE
    BY Zenon DEF GoesBack, Back, Forward
  <1>5. HistoryHolds'
    <2>1. going' \in Nat /\ going' < at' /\ at' \in 1 .. Len(entries)
      BY <1>3, <1>4
    <2>2. entries' \in Seq(HistoryEntry) /\ at' \in 1 .. Len(entries')
      BY <1>1, <1>2, <2>1 DEF HistoryHolds
    <2> QED BY <1>1, <2>1, <2>2, Zenon DEF HistoryHolds
  <1>6. SearchInStep'
    BY <1>1, <1>2, GridStays
  <1>7. ASSUME ~astray'
        PROVE  NothingAstray'
    <2>1. /\ ~astray /\ at' = at - 1
          /\ \/ going > 0 /\ going' = going - 1
             \/ going = 0 /\ going' = going /\ at > 1
      <3>1. ~astray'
        BY <1>7
      <3>2. CASE going > 0 /\ going' = going - 1 /\ at' = at - 1 /\ astray' = astray
        BY <3>1, <3>2, Zenon
      <3>3. CASE going = 0 /\ going' = going /\ at > 1 /\ at' = at - 1 /\ astray' = astray
        BY <3>1, <3>3, Zenon
      <3> QED BY <1>4, <3>1, <3>2, <3>3, Zenon
    <2>2. NothingAstray
      BY <2>1, Zenon DEF PageInv
    <2>3. active' = active
      BY <1>1, Zenon
    <2>4. UnderIt
      <3>1. CASE going > 0
        BY <1>3, <2>2, <3>1 DEF NothingAstray
      <3>2. CASE going = 0 /\ at > 1
        <4>1. rug # 0
          BY <1>3, <2>2, <3>2 DEF NothingAstray
        <4> QED BY <2>2, <4>1, Zenon DEF NothingAstray
      <3> QED BY <2>1, <3>1, <3>2
    <2>5. going' = 0
      BY <1>3, <2>1, <2>2 DEF NothingAstray
    <2>6. at' = 1 /\ entries'[1].path = 0
      BY <1>1, <1>3, <2>1, <2>4 DEF UnderIt
    <2>7. Opened(entries'[1].tab) = active'
      BY <1>1, <2>3, <2>4, Zenon DEF UnderIt
    <2> QED BY <1>1, <2>5, <2>6, <2>7 DEF NothingAstray, Opened
  <1>8. PopupHasItsAddress' /\ rug' \in Cards \cup {0}
    BY <1>1 DEF PopupHasItsAddress
  <1> QED BY <1>2, <1>5, <1>6, <1>7, <1>8 DEF PageInv

LEMMA LoadKeeps == ASSUME PageInv, LoadAgain PROVE PageInv'
  <1>1. /\ going = 0 /\ entries[at].path = 0 /\ active' = Opened(entries[at].tab)
        /\ page' = 1 /\ rug' = 0 /\ ~returnTo' /\ entries' = entries /\ at' = at /\ going' = going /\ astray' = astray
    BY Zenon DEF LoadAgain
  <1>2. HistoryHolds
    BY DEF PageInv
  <1>3. HistoryHolds'
    <2>1. entries \in Seq(HistoryEntry) /\ at \in 1 .. Len(entries) /\ going \in Nat /\ going < at
      BY <1>2, Zenon DEF HistoryHolds
    <2> QED BY <1>1, <2>1, Zenon DEF HistoryHolds
  <1>4. SearchInStep'
    <2>1. page' \in 1 .. PagesOf'
      BY <1>1, FirstPage
    <2>2. query' = "" /\ typed' = "" /\ trimmed("") = ""
      BY Zenon DEF LoadAgain, trimmed
    <2> QED BY <2>1, <2>2, Zenon DEF SearchInStep
  <1>5. ASSUME ~astray'
        PROVE  NothingAstray'
    <2>1. NothingAstray
      BY <1>1, <1>5, Zenon DEF PageInv
    <2>2. rug = 0
      BY <1>1, <2>1 DEF NothingAstray
    <2>3. at = 1
      BY <1>1, <2>1, <2>2 DEF NothingAstray
    <2> QED BY <1>1, <2>3 DEF NothingAstray, Opened
  <1>6. PopupHasItsAddress' /\ active' \in ChipNames /\ rug' \in Cards \cup {0}
    BY <1>1, ChipFacts DEF PopupHasItsAddress
  <1> QED BY <1>3, <1>4, <1>5, <1>6 DEF PageInv

\* What is on screen, what the address bar says and what is typed never part, for every strip of
\* collections, every grid and every length of page (filters.ts, search.ts, product-dialog.ts).
THEOREM PageInStepHolds == PageSpec => []PageInStep
  <1>1. PageInit => PageInv
    BY PageInitInv
  <1>2. PageInv /\ [PageNext]_catalogueVars => PageInv'
    <2>1. ASSUME PageInv, PageNext
          PROVE  PageInv'
      BY <2>1, CollectionKeeps, PagerKeeps, SearchKeeps, OpenKeeps, CloseKeeps, MoveKeeps, LoadKeeps, Zenon DEF PageNext
    <2>2. ASSUME PageInv, UNCHANGED catalogueVars
          PROVE  PageInv'
      <3>1. UNCHANGED <<active, query, typed, searching, page>> /\ UNCHANGED <<active, popupVars>>
        BY <2>2, Zenon DEF catalogueVars, gridVars
      <3>2. SearchInStep'
        BY <2>2, <3>1, GridStays DEF PageInv
      <3> QED BY <2>2, <3>1, <3>2, GridKeeps
    <2> QED BY <2>1, <2>2
  <1>3. PageInv => PageInStep
    <2>1. ASSUME PageInv, ~astray, going = 0
          PROVE  rug = entries[at].path /\ (rug = 0 => Opened(entries[at].tab) = active)
      <3>1. NothingAstray
        BY <2>1, Zenon DEF PageInv
      <3> QED BY <2>1, <3>1 DEF NothingAstray
    <2>2. PageInv => AddressInStep
      BY <2>1, Zenon DEF AddressInStep
    <2> QED BY <2>2 DEF PageInStep, PageInv
  <1> QED BY <1>1, <1>2, <1>3, PTL DEF PageSpec

-----------------------------------------------------------------------------
(* The row of a product: the form holds the version of the row it shows    *)

FormShowsItsVersion == {"version", "shown"} \subseteq DOMAIN form /\ form.version = form.shown

RowInv == FormShowsItsVersion /\ NothingTrampled

\* A whole-row write is made only over the row its version names, and leaves what was sent.
LEMMA SavedOverItsVersion ==
    ASSUME NEW body, NEW version, update(body, version).at = "saved"
    PROVE  version = row /\ update(body, version).rug = body
  <1>1. CASE gone
    BY <1>1 DEF update
  <1>2. CASE ~gone /\ body = row
    BY <1>2 DEF update
  <1>3. CASE ~gone /\ body # row /\ version # row
    BY <1>3 DEF update
  <1>4. CASE ~gone /\ body # row /\ version = row
    BY <1>4 DEF update
  <1> QED BY <1>1, <1>2, <1>3, <1>4

\* So it tramples nothing of an author whose version is the row they saw, and a request that
\* did not get through tramples nothing either.
LEMMA NoWriteTramples ==
    ASSUME NEW body, NEW shown, NEW reached \in BOOLEAN, trampled = {},
           Tramples(IF reached THEN update(body, shown) ELSE Failed, shown)
    PROVE  trampled' = {}
  <1> DEFINE answer == IF reached THEN update(body, shown) ELSE Failed
  <1>1. CASE answer.at = "saved"
    <2>1. reached
      BY <1>1 DEF Failed
    <2>2. shown = row
      BY <1>1, <2>1, SavedOverItsVersion
    <2> QED BY <1>1, <2>2 DEF Tramples, Differ
  <1>2. CASE answer.at # "saved"
    BY <1>2 DEF Tramples
  <1> QED BY <1>1, <1>2

LEMMA RowInitInv == ProductRowInit => RowInv
  <1> SUFFICES ASSUME ProductRowInit PROVE RowInv
    OBVIOUS
  <1>1. form = [at |-> "idle", screen |-> row, version |-> row, shown |-> row, dirty |-> FALSE,
                sent |-> None, answer |-> None]
    BY DEF ProductRowInit
  <1>2. trampled = {}
    BY DEF ProductRowInit
  <1> QED BY <1>1, <1>2 DEF RowInv, FormShowsItsVersion, NothingTrampled

LEMMA RowStepKeepsInv == RowInv /\ [ProductRowNext]_rowVars => RowInv'
  <1> SUFFICES ASSUME RowInv, [ProductRowNext]_rowVars PROVE RowInv'
    OBVIOUS
  <1> USE DEF RowInv, FormShowsItsVersion, NothingTrampled
  <1>1. CASE EditField
    BY <1>1 DEF EditField
  <1>2. CASE btnSwap
    BY <1>2 DEF btnSwap
  <1>3. CASE save
    BY <1>3 DEF save
  <1>4. CASE SaveAnswer
    BY <1>4 DEF SaveAnswer
  <1>5. CASE remove
    BY <1>5 DEF remove
  <1>6. CASE beginEdit \/ commit \/ cancel
    BY <1>6 DEF beginEdit, commit, cancel
  <1>7. CASE saveShopify \/ RetryLands
    BY <1>7 DEF saveShopify, RetryLands
  <1>8. ASSUME NEW reached \in BOOLEAN, NEW heard \in BOOLEAN, SaveReaches(reached, heard) PROVE RowInv'
    <2>1. Tramples(IF reached THEN update(form.sent, form.shown) ELSE Failed, form.shown)
      BY <1>8 DEF SaveReaches
    <2>2. trampled' = {}
      BY <2>1, NoWriteTramples
    <2>3. FormShowsItsVersion'
      BY <1>8 DEF SaveReaches
    <2> QED BY <2>2, <2>3
  <1>9. ASSUME NEW reached \in BOOLEAN, NEW heard \in BOOLEAN, RemoveReaches(reached, heard) PROVE RowInv'
    <2>1. trampled' = {}
      BY <1>9 DEF RemoveReaches, Differ
    <2>2. FormShowsItsVersion'
      BY <1>9 DEF RemoveReaches
    <2> QED BY <2>1, <2>2
  <1>10. ASSUME NEW reached \in BOOLEAN, NEW heard \in BOOLEAN, RowIsRead(reached, heard) PROVE RowInv'
    BY <1>10 DEF RowIsRead
  <1>11. ASSUME NEW reached \in BOOLEAN, NEW heard \in BOOLEAN, RenameReaches(reached, heard) PROVE RowInv'
    <2>1. Tramples(IF reached THEN update(renameBody, title.read) ELSE Failed, title.read)
      BY <1>11 DEF RenameReaches
    <2>2. trampled' = {}
      BY <2>1, NoWriteTramples
    <2> QED BY <1>11, <2>2 DEF RenameReaches
  <1>12. ASSUME NEW reached \in BOOLEAN, NEW heard \in BOOLEAN, ChoiceReaches(reached, heard) PROVE RowInv'
    BY <1>12 DEF ChoiceReaches
  <1>13. CASE UNCHANGED rowVars
    BY <1>13 DEF rowVars
  <1> QED BY <1>1, <1>2, <1>3, <1>4, <1>5, <1>6, <1>7, <1>8, <1>9, <1>10, <1>11, <1>12, <1>13 DEF ProductRowNext

\* Of the form, the rename and the delete nobody changes or takes away a cell that had changed since
\* they read it, whatever is lost and however they interleave (inline-row.ts:63-65, write.ts:567-573).
THEOREM NothingTrampledHolds == ProductRowSpec => []NothingTrampled
  <1>1. RowInv => NothingTrampled
    BY DEF RowInv
  <1> QED BY <1>1, RowInitInv, RowStepKeepsInv, PTL DEF ProductRowSpec

-----------------------------------------------------------------------------
(* The add form                                                            *)

Links == {"other", "own"}
Ids == {"", "number", "typed", "sku"}
Sources == {"form", "studio", "allocated"}
Filled == [id : Ids, idFrom : Sources, name : BOOLEAN,
           supplier : {""} \cup Links, preview : BOOLEAN, manual : BOOLEAN]

\* The next number is in the field only as one that the form allocated, and never beside the own store.
FieldsInv(f) ==
    /\ f.id = "number" => f.idFrom = "allocated"
    /\ f.supplier = "own" => f.preview /\ f.id # "number"

AddFormInv ==
    /\ url \in {""} \cup Links /\ manualFrom \in {""} \cup Links /\ fields \in Filled
    /\ FieldsInv(fields)
    /\ flight.at = "fetch" => flight.link \in Links
    /\ flight.at = "row" /\ flight.supplier = "own" => flight.id # "number"
    /\ OwnStoreNeverNumbered

LEMMA BlankForm == setId(Blank, "number", "allocated") \in Filled /\ FieldsInv(setId(Blank, "number", "allocated"))
  BY DEF setId, Blank, Filled, FieldsInv, Ids, Sources

LEMMA SetIdForm ==
    \A f \in Filled, id \in Ids, from \in Sources :
        /\ setId(f, id, from) \in Filled /\ setId(f, id, from).id = id /\ setId(f, id, from).idFrom = from
        /\ setId(f, id, from).supplier = f.supplier /\ setId(f, id, from).preview = f.preview
  BY DEF setId, Filled

\* Whatever shows or hides the field, and whatever was in it, the number goes where the own store is.
LEMMA SyncForm ==
    ASSUME NEW f \in Filled, NEW link,
           f.id = "number" => f.idFrom = "allocated",
           f.supplier = "own" => f.preview
    PROVE  syncIdField(f, link) \in Filled /\ FieldsInv(syncIdField(f, link))
  <1>1. f.id \in {"", "number", "typed", "sku"} /\ f.preview \in BOOLEAN
    BY DEF Filled, Ids
  <1>2. /\ setId(f, "", "form") \in Filled /\ setId(f, "", "form").id = ""
        /\ setId(f, "", "form").supplier = f.supplier /\ setId(f, "", "form").preview = f.preview
    <2>1. "" \in Ids /\ "form" \in Sources
      BY DEF Ids, Sources
    <2> QED BY <2>1, SetIdForm, Zenon
  <1>3. /\ setId(f, "number", "allocated") \in Filled /\ setId(f, "number", "allocated").id = "number"
        /\ setId(f, "number", "allocated").idFrom = "allocated"
        /\ setId(f, "number", "allocated").supplier = f.supplier
    BY SetIdForm DEF Ids, Sources
  <1>4. CASE ownStore(f, link) /\ f.idFrom = "allocated"
    <2>1. syncIdField(f, link) = setId(f, "", "form")
      BY <1>4 DEF syncIdField
    <2> QED BY <2>1, <1>2 DEF FieldsInv
  <1>5. CASE ~ownStore(f, link) /\ f.id = ""
    <2>1. syncIdField(f, link) = setId(f, "number", "allocated") /\ f.supplier # "own"
      BY <1>5 DEF syncIdField, ownStore
    <2> QED BY <2>1, <1>3 DEF FieldsInv
  <1>6. CASE ownStore(f, link) /\ f.idFrom # "allocated"
    <2>1. syncIdField(f, link) = f
      BY <1>6 DEF syncIdField
    <2> QED BY <2>1, <1>6 DEF FieldsInv
  <1>7. CASE ~ownStore(f, link) /\ f.id # ""
    <2>1. syncIdField(f, link) = f /\ f.supplier # "own"
      BY <1>7 DEF syncIdField, ownStore
    <2> QED BY <2>1 DEF FieldsInv
  <1> QED BY <1>4, <1>5, <1>6, <1>7

\* A step that leaves the answers and the rows alone has to be looked at for the fields.
LEMMA FieldsStep ==
    ASSUME AddFormInv, url' \in {""} \cup Links, manualFrom' \in {""} \cup Links,
           fields' \in Filled, FieldsInv(fields'), flight' = flight, taken' = taken
    PROVE  AddFormInv'
  BY DEF AddFormInv, OwnStoreNeverNumbered, FieldsInv

LEMMA EditForms ==
    ASSUME NEW f \in Filled
    PROVE  /\ [f EXCEPT !.name = TRUE] \in Filled /\ (FieldsInv(f) => FieldsInv([f EXCEPT !.name = TRUE]))
           /\ \A s \in {""} \cup Links :
                 LET g == [f EXCEPT !.supplier = s]
                 IN  g \in Filled /\ g.id = f.id /\ g.idFrom = f.idFrom /\ g.preview = f.preview
           /\ \A s \in {""} \cup Links :
                 LET g == [f EXCEPT !.manual = TRUE, !.supplier = s, !.preview = TRUE]
                 IN  g \in Filled /\ g.id = f.id /\ g.idFrom = f.idFrom /\ g.preview = TRUE
           /\ LET g == [f EXCEPT !.preview = TRUE]
              IN  g \in Filled /\ g.id = f.id /\ g.idFrom = f.idFrom /\ g.preview = TRUE
  BY DEF Filled, Links, FieldsInv

\* What the studio does to the fields by hand.
LEMMA EditsKeepInv ==
    ASSUME AddFormInv, PasteLink \/ TypeId \/ TypeName \/ ChooseSupplier \/ btnClear \/ manualEntry
    PROVE  AddFormInv'
  <1>1. fields \in Filled /\ FieldsInv(fields) /\ url \in {""} \cup Links /\ manualFrom \in {""} \cup Links
        /\ fields.supplier \in {""} \cup Links
    BY DEF AddFormInv, Filled
  <1>2. CASE PasteLink
    <2>1. PICK link \in Links : url' = link /\ fields' = syncIdField(fields, link)
      BY <1>2 DEF PasteLink, Links
    <2>2. fields' \in Filled /\ FieldsInv(fields')
      BY <1>1, <2>1, SyncForm DEF FieldsInv
    <2> QED BY <1>1, <1>2, <2>1, <2>2, FieldsStep DEF PasteLink, dialogVars
  <1>3. CASE TypeId
    <2>1. PICK id \in {"", "typed"} : fields' = setId(fields, id, "studio")
      BY <1>3 DEF TypeId
    <2>2. fields' \in Filled /\ fields'.id = id /\ fields'.supplier = fields.supplier /\ fields'.preview = fields.preview
      <3>1. id \in Ids /\ "studio" \in Sources
        BY DEF Ids, Sources
      <3> QED BY <1>1, <2>1, <3>1, SetIdForm, Zenon
    <2>3. FieldsInv(fields')
      BY <1>1, <2>2 DEF FieldsInv
    <2> QED BY <1>1, <1>3, <2>2, <2>3, FieldsStep DEF TypeId, dialogVars
  <1>4. CASE TypeName
    <2>1. fields' \in Filled /\ FieldsInv(fields')
      BY <1>1, <1>4, EditForms DEF TypeName
    <2> QED BY <1>1, <1>4, <2>1, FieldsStep DEF TypeName, dialogVars
  <1>5. CASE ChooseSupplier
    <2>1. PICK s \in {""} \cup Links : fields' = syncIdField([fields EXCEPT !.supplier = s], url) /\ fields.preview
      BY <1>5 DEF ChooseSupplier, Links
    <2> DEFINE g == [fields EXCEPT !.supplier = s]
    <2>2. g \in Filled /\ g.id = fields.id /\ g.idFrom = fields.idFrom /\ g.preview = fields.preview
      BY <1>1, EditForms
    <2>3. fields' \in Filled /\ FieldsInv(fields')
      <3> HIDE DEF g
      <3> QED BY <1>1, <2>1, <2>2, SyncForm DEF FieldsInv, g
    <2> QED BY <1>1, <1>5, <2>3, FieldsStep DEF ChooseSupplier, dialogVars
  <1>6. CASE btnClear
    BY <1>6, BlankForm, FieldsStep DEF btnClear, reset
  <1>7. CASE manualEntry
    <2> DEFINE g == [fields EXCEPT !.manual = TRUE, !.supplier = manualFrom, !.preview = TRUE]
    <2>1. g \in Filled /\ g.id = fields.id /\ g.idFrom = fields.idFrom /\ g.preview = TRUE
      BY <1>1, EditForms
    <2>2. fields' = syncIdField(g, url)
      BY <1>7 DEF manualEntry
    <2> HIDE DEF g
    <2>3. fields' \in Filled /\ FieldsInv(fields')
      BY <1>1, <2>1, <2>2, SyncForm DEF FieldsInv
    <2> QED BY <1>1, <1>7, <2>3, FieldsStep DEF manualEntry
  <1> QED BY <1>2, <1>3, <1>4, <1>5, <1>6, <1>7

\* What was read takes the place of the fields, but for an id the studio typed.
LEMMA applyScrapeKeepsFields ==
    ASSUME AddFormInv, NEW link \in Links, NEW sku \in BOOLEAN, NEW titled \in BOOLEAN, NEW photos,
           applyScrape(link, sku, titled, photos)
    PROVE  fields' \in Filled /\ FieldsInv(fields')
  <1> DEFINE read == [fields EXCEPT !.manual = FALSE, !.name = @ \/ titled, !.supplier = link]
             named == CASE idTyped(read) -> read
                        [] ~idTyped(read) /\ sku -> setId(read, "sku", "form")
                        [] ~idTyped(read) /\ ~sku /\ link = "own" -> setId(read, "", "form")
                        [] OTHER -> setId(read, "number", "allocated")
             shown == [named EXCEPT !.preview = TRUE]
  <1>1. fields \in Filled /\ FieldsInv(fields)
    BY DEF AddFormInv
  <1>2. read \in Filled /\ read.id = fields.id /\ read.idFrom = fields.idFrom
    BY <1>1 DEF Filled, Links
  <1>3. fields' = syncIdField(shown, url)
    BY DEF applyScrape
  <1> HIDE DEF read
  <1>4. named \in Filled /\ (named.id = "number" => named.idFrom = "allocated")
    <2>1. CASE idTyped(read)
      BY <2>1, <1>1, <1>2 DEF FieldsInv
    <2>2. CASE ~idTyped(read) /\ sku
      BY <2>2, <1>2, SetIdForm DEF Ids, Sources
    <2>3. CASE ~idTyped(read) /\ ~sku /\ link = "own"
      BY <2>3, <1>2, SetIdForm DEF Ids, Sources
    <2>4. CASE ~idTyped(read) /\ ~sku /\ link # "own"
      BY <2>4, <1>2, SetIdForm DEF Ids, Sources
    <2> QED BY <2>1, <2>2, <2>3, <2>4
  <1> HIDE DEF named
  <1>5. shown \in Filled /\ (shown.id = "number" => shown.idFrom = "allocated") /\ shown.preview
    BY <1>4, EditForms
  <1> HIDE DEF shown
  <1> QED BY <1>3, <1>5, SyncForm

LEMMA FetchAnswerKeepsInv == AddFormInv /\ FetchAnswer => AddFormInv'
  <1> SUFFICES ASSUME AddFormInv, FetchAnswer PROVE AddFormInv'
    OBVIOUS
  <1>1. flight.link \in Links /\ flight' = Idle /\ url' = url /\ taken' = taken /\ Idle.at = "idle"
        /\ manualFrom' \in {""} \cup Links
    BY DEF FetchAnswer, AddFormInv, Idle, Links
  <1>2. fields' \in Filled /\ FieldsInv(fields')
    <2>1. CASE fields' = fields
      BY <2>1 DEF AddFormInv
    <2>2. CASE \E sku, titled \in BOOLEAN, photos \in {{}, PagePhotos} : applyScrape(flight.link, sku, titled, photos)
      <3>1. PICK sku \in BOOLEAN, titled \in BOOLEAN, photos \in {{}, PagePhotos} : applyScrape(flight.link, sku, titled, photos)
        BY <2>2
      <3> QED BY <3>1, <1>1, applyScrapeKeepsFields
    <2> QED BY <2>1, <2>2 DEF FetchAnswer
  <1> QED BY <1>1, <1>2 DEF AddFormInv, OwnStoreNeverNumbered

LEMMA SavingKeepsInv ==
    ASSUME AddFormInv, add \/ PhotosAnswer \/ RowAnswer
    PROVE  AddFormInv'
  <1>1. ASSUME NEW imported, NEW complete
        PROVE  /\ PostRow(imported, complete).at = "row"
               /\ PostRow(imported, complete).supplier = "own" => PostRow(imported, complete).id # "number"
    BY DEF PostRow, AddFormInv, FieldsInv
  <1>2. CASE add
    <2>1. UNCHANGED <<url, fields, manualFrom, taken>>
      BY <1>2 DEF add, dialogVars
    <2>2. flight'.at = "photos" \/ (flight'.at = "row" /\ (flight'.supplier = "own" => flight'.id # "number"))
      BY <1>1, <1>2 DEF add
    <2> QED BY <2>1, <2>2 DEF AddFormInv, OwnStoreNeverNumbered, FieldsInv
  <1>3. CASE PhotosAnswer
    <2>1. UNCHANGED <<url, fields, manualFrom, taken>>
      BY <1>3 DEF PhotosAnswer, dialogVars
    <2>2. flight'.at = "row" /\ (flight'.supplier = "own" => flight'.id # "number")
      BY <1>1, <1>3 DEF PhotosAnswer
    <2> QED BY <2>1, <2>2 DEF AddFormInv, OwnStoreNeverNumbered, FieldsInv
  <1>4. CASE RowAnswer
    <2>1. flight.at = "row" /\ flight' = Idle /\ flight'.at = "idle"
      BY <1>4 DEF RowAnswer, Idle
    <2>2. \/ reset
          \/ UNCHANGED <<url, fields, manualFrom>>
      BY <1>4 DEF RowAnswer
    <2>3. url' \in {""} \cup Links /\ manualFrom' \in {""} \cup Links /\ fields' \in Filled /\ FieldsInv(fields')
      BY <2>2, BlankForm DEF reset, AddFormInv
    <2>4. OwnStoreNeverNumbered'
      <3>1. CASE taken' = taken
        BY <3>1 DEF AddFormInv, OwnStoreNeverNumbered
      <3>2. CASE ~(flight.supplier = "own" /\ flight.id = "") /\ taken' = taken \cup {Row(flight)}
        <4>1. Row(flight).supplier = flight.supplier /\ (flight.id # "" => Row(flight).id = flight.id)
          BY DEF Row
        <4> QED BY <2>1, <3>2, <4>1 DEF AddFormInv, OwnStoreNeverNumbered
      <3> QED BY <1>4, <3>1, <3>2 DEF RowAnswer
    <2> QED BY <2>1, <2>3, <2>4 DEF AddFormInv
  <1> QED BY <1>2, <1>3, <1>4

LEMMA AddFormStepKeepsInv == AddFormInv /\ [AddFormNext]_addVars => AddFormInv'
  <1> SUFFICES ASSUME AddFormInv, [AddFormNext]_addVars
               PROVE  AddFormInv'
    OBVIOUS
  <1>1. CASE btnFetch \/ onRetry
    <2>1. fetchUrl
      BY <1>1 DEF btnFetch, onRetry
    <2>2. flight' = [at |-> "fetch", link |-> url] /\ url \in Links
      BY <2>1 DEF fetchUrl, AddFormInv
    <2>3. UNCHANGED <<url, fields, taken>> /\ manualFrom' = ""
      BY <2>1 DEF fetchUrl
    <2> QED BY <2>2, <2>3 DEF AddFormInv, OwnStoreNeverNumbered, FieldsInv
  <1>2. CASE onCancel
    BY <1>2, FieldsStep DEF onCancel, AddFormInv
  <1>3. ASSUME NEW p \in PagePhotos, PickTexture(p) \/ ToggleKeep(p) PROVE AddFormInv'
    BY <1>3, FieldsStep DEF PickTexture, ToggleKeep, dialogVars, AddFormInv
  <1>4. CASE UNCHANGED addVars
    BY <1>4, FieldsStep DEF addVars, dialogVars, AddFormInv
  <1> QED BY <1>1, <1>2, <1>3, <1>4, EditsKeepInv, FetchAnswerKeepsInv, SavingKeepsInv DEF AddFormNext

\* A product of the studio's own store is never filed under the next number, for any number of photos,
\* saves and links pasted, whatever is typed, erased or chosen before it or while its photos are on
\* their way.
THEOREM OwnStoreNeverNumberedHolds == AddFormSpec => []OwnStoreNeverNumbered
  <1>1. AddFormInit => AddFormInv
    <2>1. Idle.at = "idle"
      BY DEF Idle
    <2> QED BY <2>1, BlankForm DEF AddFormInit, AddFormInv, OwnStoreNeverNumbered
  <1>2. AddFormInv => OwnStoreNeverNumbered
    BY DEF AddFormInv
  <1> QED BY <1>1, <1>2, AddFormStepKeepsInv, PTL DEF AddFormSpec

-----------------------------------------------------------------------------
(* The set-up of the spreadsheet                                           *)

Checked == {"verify", "done"}
Tagged == {"badges"} \cup Checked
Seeded == {"products", "collections", "tags"} \cup Tagged
Shaped == {"data"} \cup Seeded
Headed == {"formats"} \cup Shaped

\* What the phases that are over have left.
PhasesOK ==
    /\ phase \in {"stopped", "tabs", "columns", "upgrade", "headers", "refused"} \cup Headed
    /\ tabs \in {{}, Tabs}
    /\ phase \in {"columns", "upgrade", "headers"} \cup Headed => tabs = Tabs
    /\ phase \in {"upgrade", "headers"} \cup Headed => wide
    /\ phase \in Headed => \A t \in Tabs : header[t] = "right"
    /\ phase \in Shaped => formatted
    /\ phase \in Seeded => "Rates" \in rows
    /\ phase \in Checked => badges

\* The layout from before the brief is gone once it is upgraded, and the one whose labels are to be
\* written is this run's own: unless a run stopped between the two.
HeadersOK ==
    /\ DOMAIN header = Tabs
    /\ header["Products"] \in {"right", "short", "blank", "wrong"}
    /\ header["Collections"] \in {"right", "blank", "legacy", "moved"}
    /\ header["Tags"] \in {"right", "blank"} /\ header["Rates"] \in {"right", "blank"}
    /\ header["Collections"] = "legacy" => phase \in {"stopped", "tabs", "columns", "upgrade"}
    /\ header["Collections"] = "moved" => torn \/ (moved /\ phase \in {"headers", "refused"})

\* Products without Collections is a seed under way, or one that was stopped; and whoever seeds does
\* it from the start.
RowsOK ==
    /\ seedMode \in {"live", "none"} /\ seeding \in BOOLEAN
    /\ seeding => seedMode = "live"
    /\ badges => "Tags" \in rows
    /\ seedMode = "live" /\ "Tags" \in rows => "Products" \in rows
    /\ "Products" \in rows /\ "Collections" \notin rows => torn \/ (seeding /\ phase = "collections")
    /\ phase = "products" => (seeding <=> seedMode = "live" /\ "Products" \notin rows)
    /\ phase \in {"collections", "tags"} => seeding /\ "Products" \in rows /\ "Tags" \notin rows
    /\ phase = "tags" => "Collections" \in rows
    /\ phase \in Tagged /\ seedMode = "live" => "Products" \in rows

\* A set-up that says it is done has left the sheet complete, however often it was stopped before, and
\* one that refuses has met a header only a human can judge: unless a run stopped inside one of the
\* two repairs of several calls (provision.ts:97-355).
EndsRepaired ==
    ~torn => (phase = "done" => Complete) /\ (phase = "refused" => header["Products"] = "wrong")

ProvisionInv == PhasesOK /\ HeadersOK /\ RowsOK /\ EndsRepaired

\* The four tabs.
LEMMA TheTabs ==
    /\ Tabs = {"Products", "Collections", "Tags", "Rates"} /\ DOMAIN ALL_TABS = 1..4
    /\ \A i \in 1..4 : ALL_TABS[i] \in Tabs
  BY DEF Tabs, ALL_TABS

\* The loop takes a tab whose header is not right, while there is one.
LEMMA NextTabIsPending ==
    ASSUME Pending # {}
    PROVE  NextTab \in Tabs /\ header[NextTab] # "right"
  <1>1. \A i \in Pending : i \in 1..4 /\ header[ALL_TABS[i]] # "right" /\ ALL_TABS[i] \in Tabs
    BY TheTabs DEF Pending
  <1>2. \E i \in Pending : \A j \in Pending : i <= j
    <2>1. CASE 1 \in Pending
      BY <1>1, <2>1
    <2>2. CASE 1 \notin Pending /\ 2 \in Pending
      BY <1>1, <2>2
    <2>3. CASE 1 \notin Pending /\ 2 \notin Pending /\ 3 \in Pending
      BY <1>1, <2>3
    <2>4. CASE 1 \notin Pending /\ 2 \notin Pending /\ 3 \notin Pending
      BY <1>1, <2>4
    <2> QED
      BY <2>1, <2>2, <2>3, <2>4
  <1>3. PICK i : i = CHOOSE k \in Pending : \A j \in Pending : k <= j
    OBVIOUS
  <1>4. i \in Pending
    BY <1>2, <1>3
  <1>5. NextTab = ALL_TABS[i]
    BY <1>3 DEF NextTab
  <1> QED
    BY <1>1, <1>4, <1>5

\* With no header left to write, all are right.
LEMMA NonePending ==
    ASSUME Pending = {}
    PROVE  \A t \in Tabs : header[t] = "right"
  <1>1. \A i \in 1..4 : header[ALL_TABS[i]] = "right"
    BY TheTabs DEF Pending
  <1>2. ALL_TABS[1] = "Products" /\ ALL_TABS[2] = "Collections" /\ ALL_TABS[3] = "Tags" /\ ALL_TABS[4] = "Rates"
    BY DEF ALL_TABS
  <1> QED
    BY <1>1, <1>2, TheTabs

\* The sheet as it is met has every part in one of the forms the set-up knows.
LEMMA ProvisionInitInv == ProvisionInit => ProvisionInv
  <1> SUFFICES ASSUME ProvisionInit PROVE ProvisionInv
    OBVIOUS
  <1>1. PhasesOK /\ EndsRepaired
    BY DEF ProvisionInit, PhasesOK, EndsRepaired, Headed, Shaped, Seeded, Tagged, Checked
  <1>2. RowsOK
    BY DEF ProvisionInit, RowsOK, Tagged, Checked
  <1>3. HeadersOK
    <2>1. CASE header = [t \in Tabs |-> "blank"]
      BY <2>1, TheTabs DEF HeadersOK
    <2>2. ASSUME NEW p \in {"right", "short", "wrong"}, NEW c \in {"right", "legacy"},
                 header = [t \in Tabs |-> CASE t = "Products" -> p [] t = "Collections" -> c [] OTHER -> "right"]
          PROVE  HeadersOK
      <3>1. /\ DOMAIN header = Tabs /\ header["Products"] = p /\ header["Collections"] = c
            /\ header["Tags"] = "right" /\ header["Rates"] = "right"
        BY <2>2, TheTabs
      <3> QED
        BY <3>1 DEF HeadersOK, ProvisionInit
    <2> QED
      BY <2>1, <2>2 DEF ProvisionInit
  <1> QED
    BY <1>1, <1>2, <1>3 DEF ProvisionInv

\* A run starts from the top.
LEMMA RunInv == ProvisionInv /\ Run => ProvisionInv'
  <1> SUFFICES ASSUME ProvisionInv, Run PROVE ProvisionInv'
    OBVIOUS
  <1>1. /\ phase = "stopped" /\ phase' = "tabs" /\ seeding' = FALSE
        /\ UNCHANGED <<tabs, header, wide, formatted, rows, badges, seedMode, torn>>
    BY DEF Run, sheetVars, options
  <1>2. PhasesOK' /\ EndsRepaired'
    BY <1>1 DEF ProvisionInv, PhasesOK, EndsRepaired, Headed, Shaped, Seeded, Tagged, Checked
  <1>3. HeadersOK'
    BY <1>1 DEF ProvisionInv, HeadersOK
  <1>4. RowsOK'
    BY <1>1 DEF ProvisionInv, RowsOK, Tagged, Checked
  <1> QED
    BY <1>2, <1>3, <1>4 DEF ProvisionInv

\* The tabs, the columns and the upgrade of Collections.
LEMMA ShapeInv == ProvisionInv /\ (CreateTabs \/ WidenProducts \/ Upgrade) => ProvisionInv'
  <1> SUFFICES ASSUME ProvisionInv, CreateTabs \/ WidenProducts \/ Upgrade PROVE ProvisionInv'
    OBVIOUS
  <1> USE DEF Headed, Shaped, Seeded, Tagged, Checked
  <1>1. CASE CreateTabs
    <2>1. phase = "tabs" /\ phase' = "columns" /\ UNCHANGED <<header, wide, formatted, rows, badges, seedMode, moved, seeding, torn>>
      BY <1>1 DEF CreateTabs, Skip, Call, AddTabs, sheetVars, options
    <2>2. tabs' = Tabs
      <3>1. tabs = Tabs \/ tabs = {}
        BY DEF ProvisionInv, PhasesOK
      <3> QED
        BY <1>1, <3>1 DEF CreateTabs, Skip, Call, AddTabs, sheetVars
    <2> QED
      BY <2>1, <2>2 DEF ProvisionInv, PhasesOK, HeadersOK, RowsOK, EndsRepaired
  <1>2. CASE WidenProducts
    <2>1. phase = "columns" /\ phase' = "upgrade" /\ UNCHANGED <<tabs, header, formatted, rows, badges, seedMode, moved, seeding, torn>>
      BY <1>2 DEF WidenProducts, Skip, Call, Widen, sheetVars, options
    <2>2. wide'
      BY <1>2 DEF WidenProducts, Skip, Call, Widen, sheetVars
    <2> QED
      BY <2>1, <2>2 DEF ProvisionInv, PhasesOK, HeadersOK, RowsOK, EndsRepaired
  <1>3. CASE Upgrade
    <2>1. phase = "upgrade" /\ phase' = "headers" /\ UNCHANGED <<tabs, wide, formatted, rows, badges, seedMode, seeding, torn>>
      BY <1>3 DEF Upgrade, Skip, Call, UpgradeCollections, SetHeader, sheetVars, options
    <2>2. \/ header["Collections"] # "legacy" /\ UNCHANGED <<header, moved>>
          \/ header' = [header EXCEPT !["Collections"] = "moved"] /\ moved'
      BY <1>3 DEF Upgrade, Skip, Call, UpgradeCollections, SetHeader, sheetVars
    <2>3. PhasesOK' /\ RowsOK' /\ EndsRepaired'
      BY <2>1 DEF ProvisionInv, PhasesOK, RowsOK, EndsRepaired
    <2>4. HeadersOK'
      BY <2>1, <2>2, TheTabs DEF ProvisionInv, HeadersOK
    <2> QED
      BY <2>3, <2>4 DEF ProvisionInv
  <1> QED
    BY <1>1, <1>2, <1>3

\* The loop over the headers ends with all of them right, or with one that a human is to judge.
LEMMA WriteHeadersInv == ProvisionInv /\ WriteHeaders => ProvisionInv'
  <1> SUFFICES ASSUME ProvisionInv, WriteHeaders PROVE ProvisionInv'
    OBVIOUS
  <1> USE DEF Headed, Shaped, Seeded, Tagged, Checked
  <1>1. phase = "headers" /\ UNCHANGED <<tabs, wide, formatted, rows, badges, seedMode, moved, seeding, torn>>
    BY DEF WriteHeaders, Skip, Call, SetHeader, sheetVars, options
  <1>2. CASE Pending = {}
    <2>1. phase' = "formats" /\ header' = header
      BY <1>2 DEF WriteHeaders, Skip, sheetVars
    <2>2. \A t \in Tabs : header[t] = "right"
      BY <1>2, NonePending
    <2> QED
      BY <1>1, <2>1, <2>2, TheTabs DEF ProvisionInv, PhasesOK, HeadersOK, RowsOK, EndsRepaired
  <1>3. CASE Pending # {} /\ Writable(NextTab)
    <2>1. PICK t \in Tabs : header' = [header EXCEPT ![t] = "right"]
      BY <1>3, NextTabIsPending DEF WriteHeaders, Call, SetHeader
    <2>2. phase' = phase
      BY <1>1, <1>3 DEF WriteHeaders, Call
    <2>3. PhasesOK' /\ RowsOK' /\ EndsRepaired'
      BY <1>1, <2>2 DEF ProvisionInv, PhasesOK, RowsOK, EndsRepaired
    <2>4. HeadersOK'
      BY <1>1, <2>1, <2>2, TheTabs DEF ProvisionInv, HeadersOK
    <2> QED
      BY <2>3, <2>4 DEF ProvisionInv
  <1>4. CASE Pending # {} /\ ~Writable(NextTab)
    <2>1. phase' = "refused" /\ header' = header
      BY <1>4 DEF WriteHeaders, Skip, sheetVars
    <2>2. PICK t \in Tabs : header[t] \notin {"short", "blank", "right"} /\ ~(moved /\ t = "Collections")
      BY <1>4, NextTabIsPending DEF Writable
    <2>3. ~torn => header["Products"] = "wrong"
      BY <1>1, <2>2, TheTabs DEF ProvisionInv, HeadersOK
    <2> QED
      BY <1>1, <2>1, <2>3 DEF ProvisionInv, PhasesOK, HeadersOK, RowsOK, EndsRepaired
  <1> QED
    BY <1>2, <1>3, <1>4

\* The formats, the rates and what Products is found to have.
LEMMA FormatInv == ProvisionInv /\ (Format \/ SeedRates) => ProvisionInv'
  <1> SUFFICES ASSUME ProvisionInv, Format \/ SeedRates PROVE ProvisionInv'
    OBVIOUS
  <1> USE DEF Headed, Shaped, Seeded, Tagged, Checked
  <1>1. CASE Format
    <2>1. phase = "formats" /\ phase' = "data" /\ formatted'
          /\ UNCHANGED <<tabs, header, wide, rows, badges, seedMode, moved, seeding, torn>>
      BY <1>1 DEF Format, Call, FormatAndProtect, options
    <2> QED
      BY <2>1 DEF ProvisionInv, PhasesOK, HeadersOK, RowsOK, EndsRepaired
  <1>2. CASE SeedRates
    <2>1. /\ phase = "data" /\ phase' = "products" /\ "Rates" \in rows' /\ (badges' <=> badges)
          /\ UNCHANGED <<tabs, header, wide, formatted, seedMode, moved, torn>>
          /\ rows' = rows \cup {"Rates"} \/ rows' = rows
          /\ seeding' = (seedMode # "none" /\ "Products" \notin rows)
      BY <1>2 DEF SeedRates, SeedRows, options, sheetVars
    <2>2. "Products" \in rows' <=> "Products" \in rows
      BY <2>1
    <2>3. "Tags" \in rows' <=> "Tags" \in rows
      BY <2>1
    <2>4. "Collections" \in rows' <=> "Collections" \in rows
      BY <2>1
    <2> QED
      BY <2>1, <2>2, <2>3, <2>4 DEF ProvisionInv, PhasesOK, HeadersOK, RowsOK, EndsRepaired
  <1> QED
    BY <1>1, <1>2

\* The three tabs that are seeded together.
LEMMA SeedInv == ProvisionInv /\ Seed => ProvisionInv'
  <1> SUFFICES ASSUME ProvisionInv, Seed PROVE ProvisionInv'
    OBVIOUS
  <1> USE DEF Headed, Shaped, Seeded, Tagged, Checked
  <1>1. phase \in {"products", "collections", "tags"}
        /\ UNCHANGED <<tabs, header, wide, formatted, seedMode, moved, seeding, torn>>
    BY DEF Seed, SeedOrder, Call, Skip, SeedRows, options, sheetVars
  <1>2. CASE ~seeding
    <2>1. phase' = "badges" /\ UNCHANGED <<rows, badges>>
      BY <1>2 DEF Seed, Skip, sheetVars
    <2> QED
      BY <1>1, <1>2, <2>1 DEF ProvisionInv, PhasesOK, HeadersOK, RowsOK, EndsRepaired
  <1>3. CASE seeding /\ phase = "products"
    <2>1. phase' = "collections" /\ rows' = rows \cup {"Products"} /\ (badges' <=> badges)
      BY <1>3 DEF Seed, Call, SeedRows, SeedOrder, AfterSeed
    <2> QED
      BY <1>1, <1>3, <2>1 DEF ProvisionInv, PhasesOK, HeadersOK, RowsOK, EndsRepaired
  <1>4. CASE seeding /\ phase = "collections"
    <2>1. phase' = "tags" /\ rows' = rows \cup {"Collections"} /\ (badges' <=> badges)
      BY <1>4 DEF Seed, Call, SeedRows, SeedOrder, AfterSeed
    <2> QED
      BY <1>1, <1>4, <2>1 DEF ProvisionInv, PhasesOK, HeadersOK, RowsOK, EndsRepaired
  <1>5. CASE seeding /\ phase = "tags"
    <2>1. phase' = "verify" /\ rows' = rows \cup {"Tags"} /\ badges'
      BY <1>5 DEF Seed, Call, SeedRows, SeedOrder, AfterSeed
    <2> QED
      BY <1>1, <1>5, <2>1 DEF ProvisionInv, PhasesOK, HeadersOK, RowsOK, EndsRepaired
  <1> QED
    BY <1>1, <1>2, <1>3, <1>4, <1>5

\* The badges, and the last look.
LEMMA VerifyInv == ProvisionInv /\ (BadgeTags \/ Verify) => ProvisionInv'
  <1> SUFFICES ASSUME ProvisionInv, BadgeTags \/ Verify PROVE ProvisionInv'
    OBVIOUS
  <1> USE DEF Headed, Shaped, Seeded, Tagged, Checked
  <1>1. CASE BadgeTags
    <2>1. /\ phase = "badges" /\ phase' = "verify" /\ UNCHANGED <<tabs, header, wide, formatted, seedMode, moved, seeding, torn>>
          /\ badges' /\ (rows' = rows \cup {"Tags"} \/ (badges /\ rows' = rows))
      BY <1>1 DEF BadgeTags, Call, Skip, AddBadges, options, sheetVars
    <2> QED
      BY <2>1 DEF ProvisionInv, PhasesOK, HeadersOK, RowsOK, EndsRepaired
  <1>2. CASE Verify
    <2>1. phase = "verify" /\ UNCHANGED <<tabs, header, wide, formatted, rows, badges, seedMode, moved, seeding, torn>>
          /\ phase' = (IF header["Products"] = "right" THEN "done" ELSE "refused")
      BY <1>2 DEF Verify, Skip, options, sheetVars
    <2>2. header["Products"] = "right"
      BY <2>1, TheTabs DEF ProvisionInv, PhasesOK
    <2>3. ~torn => Complete
      BY <2>1 DEF ProvisionInv, PhasesOK, RowsOK, Complete
    <2>4. Complete => Complete'
      BY <2>1 DEF Complete
    <2> QED
      BY <2>1, <2>2, <2>3, <2>4 DEF ProvisionInv, PhasesOK, HeadersOK, RowsOK, EndsRepaired
  <1> QED
    BY <1>1, <1>2

\* A call that fails, before or after it took effect, leaves what the next run repairs.
LEMMA CallFailsInv == ProvisionInv /\ CallFails => ProvisionInv'
  <1> SUFFICES ASSUME ProvisionInv, CallFails PROVE ProvisionInv'
    OBVIOUS
  <1> USE DEF Headed, Shaped, Seeded, Tagged, Checked
  <1>1. /\ phase' = "stopped" /\ UNCHANGED <<seedMode, moved, seeding>>
        /\ torn' = (torn \/ header'["Collections"] = "moved"
                        \/ (seeding /\ "Products" \in rows' /\ "Tags" \notin rows'))
    BY DEF CallFails, options
  <1>2. (tabs' = tabs \/ tabs' = Tabs) /\ EndsRepaired'
    BY <1>1 DEF CallFails, AddTabs, Widen, UpgradeCollections, SetHeader, FormatAndProtect, SeedRows, AddBadges,
                sheetVars, EndsRepaired
  <1>3. \/ header' = header
        \/ header["Collections"] = "legacy" /\ header' = [header EXCEPT !["Collections"] = "moved"]
        \/ \E t \in Tabs : header' = [header EXCEPT ![t] = "right"]
    BY NextTabIsPending DEF CallFails, AddTabs, Widen, UpgradeCollections, SetHeader, FormatAndProtect, SeedRows,
                AddBadges, sheetVars
  <1>4. HeadersOK'
    BY <1>1, <1>3, TheTabs DEF ProvisionInv, HeadersOK
  <1>5. PhasesOK'
    BY <1>1, <1>2 DEF ProvisionInv, PhasesOK
  <1>6. RowsOK'
    <2>1. CASE UNCHANGED <<rows, badges>>
      BY <1>1, <2>1 DEF ProvisionInv, PhasesOK, RowsOK
    <2>2. CASE rows' = rows \cup {"Rates"} /\ (badges' <=> badges) /\ phase = "data"
      BY <1>1, <2>2 DEF ProvisionInv, PhasesOK, RowsOK
    <2>3. CASE rows' = rows \cup {"Tags"} /\ badges' /\ phase = "badges"
      BY <1>1, <2>3 DEF ProvisionInv, PhasesOK, RowsOK
    <2>4. CASE seeding /\ phase = "products" /\ rows' = rows \cup {"Products"} /\ (badges' <=> badges)
      BY <1>1, <2>4 DEF ProvisionInv, PhasesOK, RowsOK
    <2>5. CASE seeding /\ phase = "collections" /\ rows' = rows \cup {"Collections"} /\ (badges' <=> badges)
      BY <1>1, <2>5 DEF ProvisionInv, PhasesOK, RowsOK
    <2>6. CASE seeding /\ phase = "tags" /\ rows' = rows \cup {"Tags"} /\ badges'
      BY <1>1, <2>6 DEF ProvisionInv, PhasesOK, RowsOK
    <2>7. \/ UNCHANGED <<rows, badges>>
          \/ phase = "data" /\ SeedRows("Rates")
          \/ phase = "badges" /\ AddBadges
          \/ phase \in DOMAIN SeedOrder /\ seeding /\ SeedRows(SeedOrder[phase])
      BY DEF CallFails, AddTabs, Widen, UpgradeCollections, SetHeader, FormatAndProtect, sheetVars
    <2>8. CASE phase \in DOMAIN SeedOrder /\ seeding /\ SeedRows(SeedOrder[phase])
      <3>1. phase \in {"products", "collections", "tags"}
        BY <2>8 DEF SeedOrder
      <3>2. CASE phase = "products"
        BY <2>4, <2>8, <3>2 DEF SeedRows, SeedOrder
      <3>3. CASE phase = "collections"
        BY <2>5, <2>8, <3>3 DEF SeedRows, SeedOrder
      <3>4. CASE phase = "tags"
        BY <2>6, <2>8, <3>4 DEF SeedRows, SeedOrder
      <3> QED
        BY <3>1, <3>2, <3>3, <3>4
    <2> QED
      BY <2>1, <2>2, <2>3, <2>7, <2>8 DEF SeedRows, AddBadges
  <1> QED
    BY <1>2, <1>4, <1>5, <1>6 DEF ProvisionInv

\* No step of a run, and no end of one, leaves a sheet the next run does not repair.
LEMMA ProvisionInvNext == ProvisionInv /\ [ProvisionNext]_provisionVars => ProvisionInv'
  <1> SUFFICES ASSUME ProvisionInv, [ProvisionNext]_provisionVars PROVE ProvisionInv'
    OBVIOUS
  <1>1. CASE UNCHANGED provisionVars
    BY <1>1 DEF provisionVars, sheetVars, options, ProvisionInv, PhasesOK, HeadersOK, RowsOK, EndsRepaired, Complete
  <1> QED
    BY <1>1, RunInv, ShapeInv, WriteHeadersInv, FormatInv, SeedInv, VerifyInv, CallFailsInv DEF ProvisionNext, Steps

\* A set-up that ends has repaired the sheet or says what only a human can, for any number of stops.
THEOREM EndsRepairedHolds == ProvisionSpec => []EndsRepaired
  <1>1. ProvisionInv => EndsRepaired
    BY DEF ProvisionInv
  <1> QED
    BY <1>1, ProvisionInitInv, ProvisionInvNext, PTL DEF ProvisionSpec
=============================================================================
