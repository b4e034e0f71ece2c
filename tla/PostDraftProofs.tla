--------------------------- MODULE PostDraftProofs ---------------------------
(***************************************************************************)
(* Theorems of PostDraft, for any number of edits, posts, attempts and     *)
(* restarts.                                                               *)
(*                                                                         *)
(* Its two loops answer questions about texts that may be gone; what makes *)
(* their answers harmless is the lock of the row each question came from   *)
(* (EnglishInv, CardsInv), and what makes a scheduled post go out as it    *)
(* is, that whatever postpones a plan leaves a card that will ask for it   *)
(* again (DeckInv, StoryInv, PlanInv).                                     *)
(***************************************************************************)
EXTENDS PostDraft, SequenceTheorems, TLAPS

\* A renderer or a translator that works knows what it was given.
Asked == [busy: {TRUE}, texts: Seq(Editions)]
Claimed == [busy: {TRUE}, locale: Locales, hash: Editions, tries: 0 .. MaxTries]

TypeInv ==
  /\ DraftTypeOK
  /\ \A i \in DOMAIN posts : posts[i].ru # 0
  /\ translation.status \in Coming => translation.tries < MaxTries
  /\ \A l \in Locales : cards[l].status \in {"queued", "rendering"} => cards[l].tries < MaxTries
  /\ translator = Asleep \/ (/\ translator \in Asked /\ 1 \in DOMAIN translator.texts
                             /\ \A i \in DOMAIN translator.texts : translator.texts[i] # 0)
  /\ renderer = Asleep \/ (renderer \in Claimed /\ renderer.tries < MaxTries)

\* An answer that settles the row is about the posts that are there.
EnglishInv ==
  /\ EnglishOfThisPost
  /\ translator # Asleep => translation.status \in Coming
  /\ asked /\ translator # Asleep /\ translation.status = "translating" =>
       \A i \in 2 .. Len(posts) : i \in DOMAIN translator.texts /\ translator.texts[i] = posts[i].ru

\* A row that is still claimed is about the card being drawn.
CardsInv ==
  /\ \A l \in Locales : cards[l].status = "ready" => cards[l].path = cards[l].hash
  /\ renderer # Asleep /\ cards[renderer.locale].status = "rendering" =>
       renderer.hash = cards[renderer.locale].hash
  /\ asked /\ translation.status = "absent" =>
       \A l \in Locales : cards[l].status # "absent" => cards[l].hash = TextOf(posts[1], l)

Present(cs) == \A l \in Locales : cs[l].status # "absent"
Open == status \in {"needs_review", "scheduled"}
PicturesOf(cs) == {<<l, cs[l].path>> : l \in Locales}
Filed(cs, fs) == \A l \in Locales : cs[l].status = "ready" => <<l, cs[l].path>> \in fs

\* The cards: a picture has its file, media of the post leaves no card, and the two
\* languages have a card together, for good once the author chose.
DeckInv ==
  /\ Filed(cards, files)
  /\ media => mode = "none" /\ \A l \in Locales : cards[l].status = "absent"
  /\ (\E l \in Locales : cards[l].status # "absent") /\ TextOf(posts[1], "en") # 0 => Present(cards)
  /\ mode # "none" /\ Open => Present(cards)
\* The plan: a Story in it shows the cards of the post, unless one of them is being drawn again.
StoryInv ==
  /\ status = "scheduled" /\ "story" \notin wants => plan.story = {}
  /\ status = "scheduled" /\ behind \in {"no", "english"} /\ plan.story # {} =>
       /\ mode = "all" /\ \A l \in Locales : cards[l].status \in {"queued", "rendering", "ready"}
       /\ ReadyCards(cards, files) => plan.story = PicturesOf(cards)

Awaited == WaitsForCards(wants, media, mode, cards, files)
PlanInv ==
  status = "scheduled" /\ behind = "no" =>
    \/ Awaited
    \/ plan = PlanOf(posts, wants, mode, cards, files) /\ ("en" \in wants => translation.status \notin Coming)

\* What the theorems about plans leave out: an edit that is undone after a file of it
\* was removed, and Story delivery chosen for a post without English.
Steady == "undone" \notin Accidents /\ "one_language" \notin Accidents

-----------------------------------------------------------------------------
(* Texts, plans and cards *)

LEMMA TextIsAnEdition ==
  ASSUME NEW p \in Post, NEW l \in Locales
  PROVE  TextOf(p, l) \in Editions
BY DEF TextOf, Post, Locales

LEMMA ThreadsAreSequences ==
  ASSUME NEW ps \in Seq(Post), NEW l \in Locales
  PROVE  /\ ThreadIn(ps, l) \in Seq(Editions) /\ DOMAIN ThreadIn(ps, l) = DOMAIN ps
         /\ Len(ThreadIn(ps, l)) = Len(ps)
<1>1. \A i \in 1 .. Len(ps) : TextOf(ps[i], l) \in Editions
  BY TextIsAnEdition, ElementOfSeq
<1>2. DOMAIN ps = 1 .. Len(ps) /\ Len(ps) \in Nat
  BY LenProperties
<1>3. ThreadIn(ps, l) \in [1 .. Len(ps) -> Editions]
  BY <1>1, <1>2 DEF ThreadIn
<1> QED BY <1>2, <1>3, IsASeq, LenProperties DEF ThreadIn

Plan(p) == p.ru \in Seq(Editions) /\ p.en \in Seq(Editions) /\ p.story \subseteq Locales \X Editions

LEMMA PlansAreTyped ==
  ASSUME NEW ps \in Seq(Post), NEW ws, NEW m, NEW cs \in [Locales -> Card], NEW fs
  PROVE  Plan(PlanOf(ps, ws, m, cs, fs))
<1> DEFINE p == PlanOf(ps, ws, m, cs, fs)
<1>1. "ru" \in Locales /\ "en" \in Locales
  BY DEF Locales
<1>2. p.ru = ThreadIn(ps, "ru") /\ (p.en = ThreadIn(ps, "en") \/ p.en = <<>>)
  BY DEF PlanOf
<1>3. p.story \subseteq {<<l, cs[l].path>> : l \in Locales}
  BY DEF PlanOf
<1>4. \A l \in Locales : cs[l].path \in Editions
  BY DEF Card
<1>5. <<>> \in Seq(Editions)
  BY EmptySeq
<1>6. ThreadIn(ps, "ru") \in Seq(Editions) /\ ThreadIn(ps, "en") \in Seq(Editions)
  BY <1>1, ThreadsAreSequences
<1>7. p.story \subseteq Locales \X Editions
  BY <1>3, <1>4
<1> HIDE DEF p
<1> QED BY <1>2, <1>5, <1>6, <1>7 DEF Plan, p

\* What becomes of a card when the texts are looked at again.
LEMMA RequeuedCard ==
  ASSUME NEW cs \in [Locales -> Card], NEW fs, NEW ps, NEW ws, NEW md, NEW l \in Locales
  PROVE  LET c == RequeuedCards(cs, fs, ps, ws, md)[l]
             text == TextOf(ps[1], l) IN
         IF md \/ ~CardUse(ws) THEN c = NoCard
         ELSE \/ text = 0 /\ c = cs[l]
              \/ text # 0 /\ c = cs[l] /\ c.hash = text /\ c.status = "ready" /\ <<l, c.path>> \in fs
              \/ text # 0 /\ c = [status |-> "queued", hash |-> text, path |-> 0, tries |-> 0]
BY DEF RequeuedCards, CardFor, NeedsDrawing

LEMMA RequeuedAreCards ==
  ASSUME NEW cs \in [Locales -> Card], NEW fs, NEW ps, ps[1] \in Post, NEW ws, NEW md
  PROVE  RequeuedCards(cs, fs, ps, ws, md) \in [Locales -> Card]
<1> DEFINE r == RequeuedCards(cs, fs, ps, ws, md)
<1>1. r = [l \in Locales |-> r[l]]
  BY DEF RequeuedCards
<1>2. 0 \in 0 .. MaxTries /\ 0 \in Editions
  BY DraftBoundsAssumption DEF Editions
<1>3. NoCard \in Card
  BY <1>2 DEF NoCard, Card, CardStatus
<1>4. ASSUME NEW l \in Locales PROVE r[l] \in Card
  <2>1. TextOf(ps[1], l) \in Editions
    BY TextIsAnEdition
  <2>2. [status |-> "queued", hash |-> TextOf(ps[1], l), path |-> 0, tries |-> 0] \in Card
    BY <1>2, <2>1 DEF Card, CardStatus
  <2> DEFINE new == [status |-> "queued", hash |-> TextOf(ps[1], l), path |-> 0, tries |-> 0]
  <2>3. r[l] = NoCard \/ r[l] = cs[l] \/ r[l] = new
    BY DEF RequeuedCards, CardFor, NeedsDrawing
  <2> HIDE DEF r, new
  <2> QED BY <1>3, <2>2, <2>3 DEF new
<1> HIDE DEF r
<1>5. r \in [Locales -> Card]
  BY <1>1, <1>4
<1> QED BY <1>5 DEF r

\* A picture that is kept keeps its file.
LEMMA DroppedFiles ==
  ASSUME NEW cs \in [Locales -> Card], NEW fs, NEW new \in [Locales -> Card],
         \A l \in Locales : new[l].status = "ready" => new[l] = cs[l] /\ <<l, new[l].path>> \in fs
  PROVE  Filed(new, fs \ Dropped(cs, new))
BY DEF Filed, Dropped, FilesOf

LEMMA FilesStayTyped ==
  ASSUME files \subseteq Locales \X Editions, NEW S
  PROVE  files \ S \subseteq Locales \X Editions
OBVIOUS

-----------------------------------------------------------------------------
(* The posts of the thread *)

GoodPosts(ps) ==
  ps \in Seq(Post) /\ Len(ps) \in 1 .. MaxPosts /\ \A i \in DOMAIN ps : ps[i].ru # 0
Edition(e) == e \in Editions /\ e # 0

LEMMA FirstPost ==
  ASSUME NEW ps, GoodPosts(ps)
  PROVE  /\ 1 \in DOMAIN ps /\ ps[1] \in Post /\ ps[1].ru # 0 /\ DOMAIN ps = 1 .. Len(ps) /\ Len(ps) \in Nat
         /\ \A i \in DOMAIN ps : ps[i] \in Post
<1>1. DOMAIN ps = 1 .. Len(ps) /\ Len(ps) \in Nat
  BY LenProperties DEF GoodPosts
<1>2. Len(ps) >= 1
  BY DraftBoundsAssumption DEF GoodPosts
<1>3. \A i \in DOMAIN ps : ps[i] \in Post
  BY <1>1, ElementOfSeq DEF GoodPosts
<1> QED BY <1>1, <1>2, <1>3 DEF GoodPosts

LEMMA PostReplaced ==
  ASSUME NEW ps, GoodPosts(ps), NEW i \in DOMAIN ps, NEW p \in Post, p.ru # 0
  PROVE  /\ GoodPosts([ps EXCEPT ![i] = p]) /\ Len([ps EXCEPT ![i] = p]) = Len(ps)
         /\ \A j \in DOMAIN ps : [ps EXCEPT ![i] = p][j] = IF j = i THEN p ELSE ps[j]
<1>1. DOMAIN ps = 1 .. Len(ps)
  BY FirstPost
<1>2. [ps EXCEPT ![i] = p] \in Seq(Post) /\ Len([ps EXCEPT ![i] = p]) = Len(ps)
  BY <1>1, ExceptSeq DEF GoodPosts
<1> QED BY <1>2 DEF GoodPosts

LEMMA PartIsAPost ==
  ASSUME NEW e, Edition(e)
  PROVE  Part(e) \in Post /\ Part(e).ru # 0
<1>1. 0 \in Editions
  BY DraftBoundsAssumption DEF Editions
<1> QED BY <1>1 DEF Part, Post, Edition

LEMMA EditionsAreNew ==
  ASSUME TypeInv, NEW edit, Editing(edit)
  PROVE  Edition(editions') /\ editions' \in 1 .. MaxEditions
BY DraftBoundsAssumption DEF TypeInv, DraftTypeOK, Editing, Edition, Editions

LEMMA PostsAreGood == TypeInv => GoodPosts(posts)
BY DEF TypeInv, DraftTypeOK, GoodPosts

\* What each edit of a text makes of the thread.
LEMMA TextEdited ==
  ASSUME TypeInv, NEW l \in Locales, Editing(l)
  PROVE  LET ps == [posts EXCEPT ![1] = IF l = "ru" THEN [@ EXCEPT !.ru = editions']
                                                    ELSE [@ EXCEPT !.approved = editions']]
         IN /\ GoodPosts(ps) /\ Len(ps) = Len(posts)
            /\ TextOf(ps[1], l) = editions' /\ TextOf(ps[1], l) # 0
            /\ \A k \in Locales \ {l} : TextOf(ps[1], k) = TextOf(posts[1], k)
            /\ \A i \in DOMAIN posts : i # 1 => ps[i] = posts[i]
<1>1. Edition(editions') /\ GoodPosts(posts)
  BY EditionsAreNew, PostsAreGood
<1> DEFINE p == IF l = "ru" THEN [posts[1] EXCEPT !.ru = editions'] ELSE [posts[1] EXCEPT !.approved = editions']
<1>2. posts[1] \in Post /\ 1 \in DOMAIN posts /\ posts[1].ru # 0
  BY <1>1, FirstPost
<1>3. p \in Post /\ p.ru # 0 /\ TextOf(p, l) = editions' /\ \A k \in Locales \ {l} : TextOf(p, k) = TextOf(posts[1], k)
  BY <1>1, <1>2 DEF Post, Edition, TextOf, Locales
<1> HIDE DEF p
<1>4. /\ GoodPosts([posts EXCEPT ![1] = p]) /\ Len([posts EXCEPT ![1] = p]) = Len(posts)
      /\ \A j \in DOMAIN posts : [posts EXCEPT ![1] = p][j] = IF j = 1 THEN p ELSE posts[j]
  BY <1>1, <1>2, <1>3, PostReplaced
<1>5. [posts EXCEPT ![1] = p] = [posts EXCEPT ![1] = IF l = "ru" THEN [@ EXCEPT !.ru = editions']
                                                    ELSE [@ EXCEPT !.approved = editions']]
  BY DEF p
<1>6. editions' # 0
  BY <1>1 DEF Edition
<1> QED BY <1>2, <1>3, <1>4, <1>5, <1>6

\* The first post is another one's business, but for a thread that is made of it.
LEMMA ThreadEdited ==
  ASSUME TypeInv,
         \/ MakeThread \/ AppendThreadPart
         \/ \E i \in 2 .. MaxPosts : EditThreadPart(i) \/ RemoveThreadPart(i) \/ EditThreadPartEnglish(i)
  PROVE  /\ GoodPosts(posts')
         /\ TextOf(posts'[1], "en") # 0 => TextOf(posts[1], "en") # 0
         /\ ~MakeThread => posts'[1] = posts[1]
<1>1. GoodPosts(posts) /\ posts \in Seq(Post) /\ Len(posts) \in Nat /\ Len(posts) >= 1 /\ Len(posts) <= MaxPosts
      /\ DOMAIN posts = 1 .. Len(posts)
  BY PostsAreGood, FirstPost, DraftBoundsAssumption DEF GoodPosts
<1>2. \A i \in DOMAIN posts : posts[i] \in Post /\ posts[i].ru # 0
  BY <1>1, FirstPost DEF GoodPosts
<1>3. Edition(editions')
  BY EditionsAreNew DEF MakeThread, AppendThreadPart, EditThreadPart, RemoveThreadPart, EditThreadPartEnglish
<1>4. Part(editions') \in Post /\ Part(editions').ru # 0
  BY <1>3, PartIsAPost
<1>5. CASE MakeThread
  <2> DEFINE p == [posts[1] EXCEPT !.ru = editions', !.approved = 0]
             front == <<p, Part(editions')>>
  <2>1. 0 \in Editions
    BY DraftBoundsAssumption DEF Editions
  <2>2. p \in Post /\ p.ru # 0 /\ (TextOf(p, "en") # 0 => TextOf(posts[1], "en") # 0)
    <3>1. posts[1] \in Post
      BY <1>1, <1>2
    <3>2. p.ru = editions' /\ p.approved = 0 /\ p.machine = posts[1].machine /\ p \in Post
      BY <1>3, <2>1, <3>1 DEF Post, Edition
    <3> HIDE DEF p
    <3> QED BY <1>3, <3>2 DEF Edition, TextOf
  <2>3. posts' = front \o Tail(posts) /\ Len(posts) < MaxPosts
    BY <1>5 DEF MakeThread, ThreadChanged
  <2> HIDE DEF p
  <2>4. front \in Seq(Post) /\ Len(front) = 2 /\ front[1] = p /\ front[2] = Part(editions')
    BY <1>4, <2>2
  <2> HIDE DEF front
  <2>5. /\ Tail(posts) \in Seq(Post) /\ Len(Tail(posts)) = Len(posts) - 1
        /\ \A i \in 1 .. Len(Tail(posts)) : Tail(posts)[i] = posts[i + 1]
    BY <1>1, HeadTailProperties, EmptySeq
  <2>6. /\ posts' \in Seq(Post) /\ Len(posts') = Len(posts) + 1
        /\ \A i \in 1 .. Len(posts) + 1 : posts'[i] = IF i <= 2 THEN front[i] ELSE Tail(posts)[i - 2]
    <3>1. /\ front \o Tail(posts) \in Seq(Post) /\ Len(front \o Tail(posts)) = Len(front) + Len(Tail(posts))
          /\ \A i \in 1 .. Len(front) + Len(Tail(posts)) :
               (front \o Tail(posts))[i] = IF i <= Len(front) THEN front[i] ELSE Tail(posts)[i - Len(front)]
      BY <2>4, <2>5, ConcatProperties
    <3> QED BY <1>1, <2>3, <2>4, <2>5, <3>1
  <2>7. DOMAIN posts' = 1 .. Len(posts) + 1
    BY <2>6, LenProperties
  <2>8. ASSUME NEW i \in 1 .. Len(posts) + 1 PROVE posts'[i].ru # 0
    <3>1. CASE i <= 2
      <4>1. i = 1 \/ i = 2
        BY <1>1, <3>1
      <4> QED BY <1>4, <2>2, <2>4, <2>6, <3>1, <4>1
    <3>2. CASE ~(i <= 2)
      <4>1. i - 2 \in 1 .. Len(Tail(posts)) /\ (i - 2) + 1 \in DOMAIN posts
        BY <1>1, <2>5, <3>2
      <4> QED BY <1>2, <2>5, <2>6, <3>2, <4>1
    <3> QED BY <3>1, <3>2
  <2>9. posts'[1] = p
    BY <1>1, <2>4, <2>6
  <2>10. Len(posts') \in 1 .. MaxPosts
    BY <1>1, <2>3, <2>6, DraftBoundsAssumption
  <2> QED BY <1>5, <2>2, <2>6, <2>7, <2>8, <2>9, <2>10 DEF GoodPosts
<1>6. CASE AppendThreadPart
  <2> DEFINE p == Part(editions')
  <2>1. posts' = Append(posts, p) /\ Len(posts) < MaxPosts
    BY <1>6 DEF AppendThreadPart, ThreadChanged
  <2> HIDE DEF p
  <2>2. /\ posts' \in Seq(Post) /\ Len(posts') = Len(posts) + 1
        /\ \A i \in 1 .. Len(posts) : posts'[i] = posts[i]
        /\ posts'[Len(posts) + 1] = p
    BY <1>1, <1>4, <2>1, AppendProperties DEF p
  <2>3. DOMAIN posts' = 1 .. Len(posts) + 1
    BY <2>2, LenProperties
  <2>4. Len(posts') \in 1 .. MaxPosts
    BY <1>1, <2>1, <2>2, DraftBoundsAssumption
  <2>5. \A i \in DOMAIN posts' : i \in DOMAIN posts \/ i = Len(posts) + 1
    BY <1>1, <2>3
  <2> QED BY <1>1, <1>2, <1>4, <2>2, <2>3, <2>4, <2>5 DEF GoodPosts, p
<1>7. ASSUME NEW i \in 2 .. MaxPosts, EditThreadPart(i) \/ EditThreadPartEnglish(i)
      PROVE  GoodPosts(posts') /\ posts'[1] = posts[1]
  <2>1. i \in DOMAIN posts /\ i # 1 /\ 1 \in DOMAIN posts
    BY <1>1, <1>7 DEF EditThreadPart, EditThreadPartEnglish
  <2> DEFINE p == IF EditThreadPart(i) THEN Part(editions') ELSE [posts[i] EXCEPT !.approved = editions']
  <2>2. posts' = [posts EXCEPT ![i] = p]
    BY <1>7 DEF EditThreadPart, EditThreadPartEnglish, ThreadChanged
  <2>3. p \in Post /\ p.ru # 0
    BY <1>2, <1>3, <1>4, <2>1 DEF Post, Edition
  <2> HIDE DEF p
  <2>4. /\ GoodPosts([posts EXCEPT ![i] = p])
        /\ \A j \in DOMAIN posts : [posts EXCEPT ![i] = p][j] = IF j = i THEN p ELSE posts[j]
    BY <1>1, <2>1, <2>3, PostReplaced
  <2> QED BY <2>1, <2>2, <2>4
<1>8. ASSUME NEW i \in 2 .. MaxPosts, RemoveThreadPart(i)
      PROVE  GoodPosts(posts') /\ posts'[1] = posts[1]
  <2>1. i \in 2 .. Len(posts) /\ posts' = SubSeq(posts, 1, i - 1) \o SubSeq(posts, i + 1, Len(posts))
    BY <1>8 DEF RemoveThreadPart, ThreadChanged
  <2> DEFINE a == SubSeq(posts, 1, i - 1)
             b == SubSeq(posts, i + 1, Len(posts))
  <2>2. a \in Seq(Post) /\ Len(a) = i - 1 /\ \A j \in 1 .. i - 1 : a[j] = posts[j]
    <3>1. 1 \in 1 .. Len(posts) + 1 /\ i - 1 \in 0 .. Len(posts) /\ 1 <= (i - 1) + 1
      BY <1>1, <2>1
    <3>2. /\ a \in Seq(Post)
          /\ Len(a) = IF 1 <= i - 1 THEN (i - 1) - 1 + 1 ELSE 0
          /\ \A j \in 1 .. (i - 1) - 1 + 1 : a[j] = posts[1 + j - 1]
      BY <1>1, <3>1, SubSeqProperties
    <3>3. Len(a) = i - 1 /\ \A j \in 1 .. i - 1 : 1 + j - 1 = j /\ j \in 1 .. (i - 1) - 1 + 1
      BY <2>1, <3>2
    <3> HIDE DEF a
    <3> QED BY <3>2, <3>3
  <2>3. b \in Seq(Post) /\ Len(b) = Len(posts) - i /\ \A j \in 1 .. Len(posts) - i : b[j] = posts[i + j]
    <3>1. i + 1 \in 1 .. Len(posts) + 1 /\ Len(posts) \in 0 .. Len(posts) /\ i + 1 <= Len(posts) + 1
      BY <1>1, <2>1
    <3>2. /\ b \in Seq(Post)
          /\ Len(b) = IF i + 1 <= Len(posts) THEN Len(posts) - (i + 1) + 1 ELSE 0
          /\ \A j \in 1 .. Len(posts) - (i + 1) + 1 : b[j] = posts[(i + 1) + j - 1]
      BY <1>1, <3>1, SubSeqProperties
    <3>3. /\ (IF i + 1 <= Len(posts) THEN Len(posts) - (i + 1) + 1 ELSE 0) = Len(posts) - i
          /\ \A j \in 1 .. Len(posts) - i : (i + 1) + j - 1 = i + j /\ j \in 1 .. Len(posts) - (i + 1) + 1
      <4>1. \A n, k \in Nat : k <= n => /\ (IF k + 1 <= n THEN n - (k + 1) + 1 ELSE 0) = n - k
                                         /\ \A j \in 1 .. n - k : (k + 1) + j - 1 = k + j /\ j \in 1 .. n - (k + 1) + 1
        OBVIOUS
      <4>2. i \in Nat /\ i <= Len(posts)
        BY <1>1, <2>1
      <4> QED BY <1>1, <4>1, <4>2
    <3> HIDE DEF b
    <3> QED BY <3>2, <3>3
  <2>4. posts' = a \o b
    BY <2>1
  <2> HIDE DEF a, b
  <2>5. /\ posts' \in Seq(Post) /\ Len(posts') = Len(posts) - 1
        /\ \A j \in 1 .. Len(posts) - 1 : posts'[j] = IF j <= i - 1 THEN a[j] ELSE b[j - (i - 1)]
    <3>1. /\ a \o b \in Seq(Post) /\ Len(a \o b) = Len(a) + Len(b)
          /\ \A j \in 1 .. Len(a) + Len(b) : (a \o b)[j] = IF j <= Len(a) THEN a[j] ELSE b[j - Len(a)]
      BY <2>2, <2>3, ConcatProperties
    <3>2. Len(a) + Len(b) = Len(posts) - 1
      BY <1>1, <2>1, <2>2, <2>3
    <3> QED BY <2>2, <2>4, <3>1, <3>2
  <2>6. DOMAIN posts' = 1 .. Len(posts) - 1 /\ Len(posts) - 1 \in 1 .. MaxPosts
    <3>1. DOMAIN posts' = 1 .. Len(posts')
      BY <2>5, LenProperties
    <3>2. Len(posts) \in Nat /\ Len(posts) <= MaxPosts /\ MaxPosts \in Nat /\ i \in 2 .. Len(posts)
      BY <1>1, <2>1, DraftBoundsAssumption
    <3>3. Len(posts) - 1 \in 1 .. MaxPosts
      BY <3>2
    <3> QED BY <2>5, <3>1, <3>3
  <2>7. ASSUME NEW j \in 1 .. Len(posts) - 1 PROVE posts'[j].ru # 0
    <3>1. CASE j <= i - 1
      <4>1. j \in 1 .. i - 1 /\ j \in DOMAIN posts
        BY <1>1, <2>1, <3>1
      <4> QED BY <1>2, <2>2, <2>5, <3>1, <4>1
    <3>2. CASE ~(j <= i - 1)
      <4>1. j - (i - 1) \in 1 .. Len(posts) - i /\ i + (j - (i - 1)) \in DOMAIN posts
        BY <1>1, <2>1, <3>2
      <4> QED BY <1>2, <2>3, <2>5, <3>2, <4>1
    <3> QED BY <3>1, <3>2
  <2>8. posts'[1] = posts[1]
    <3>1. 1 \in 1 .. Len(posts) - 1 /\ 1 \in 1 .. i - 1 /\ 1 <= i - 1
      BY <1>1, <2>1
    <3> QED BY <2>2, <2>5, <3>1
  <2> QED BY <2>5, <2>6, <2>7, <2>8 DEF GoodPosts
<1>9. ~MakeThread => posts'[1] = posts[1]
  <2>1. CASE AppendThreadPart
    <3> DEFINE p == Part(editions')
    <3>1. posts' = Append(posts, p)
      BY <2>1 DEF AppendThreadPart, ThreadChanged
    <3>2. p \in Post
      BY <1>4
    <3> HIDE DEF p
    <3>3. \A i \in 1 .. Len(posts) : posts'[i] = posts[i]
      BY <1>1, <3>1, <3>2, AppendProperties
    <3> QED BY <1>1, <3>3
  <2> QED BY <1>7, <1>8, <2>1
<1> QED BY <1>5, <1>6, <1>7, <1>8, <1>9

-----------------------------------------------------------------------------
(* What becomes of the plan *)

Planned ==
  /\ plan' = PlanOf(posts', wants', mode', cards', files')
  /\ behind' = IF "en" \in wants' /\ translation'.status \in Coming THEN "english" ELSE "no"
Refused == behind' \in {"refused", "unseen"} /\ plan' = plan
Postponed == plan' = plan /\ behind' = behind /\ Awaited'
NotYet == plan' = plan /\ behind' = behind /\ status' # "scheduled"
Replans == Planned \/ Refused \/ Postponed \/ NotYet

\* An edit of the text or the media: the whole change, or none of it.
SavedAs(ps, md) ==
  LET cs == RequeuedCards(cards, files, ps, wants, md) IN
  /\ Open /\ editions' \in 1 .. MaxEditions /\ unfit' \subseteq Editions /\ plain' \subseteq Editions
  /\ UNCHANGED <<status, wants, asked, translation, loops>>
  /\ files' = files \ Dropped(cards, cs)
  /\ \/ /\ UNCHANGED <<posts, media, cards, mode, plan, behind>>
        /\ "undone" \notin Accidents => files' = files
     \/ /\ posts' = ps /\ media' = md /\ cards' = cs
        /\ mode' = ModeAfter(mode, cards, files, ps, wants, md, status)
        /\ Replans

LEMMA SaveContentSaves ==
  ASSUME NEW ps, NEW md, SaveContent(ps, md), Open, editions' \in 1 .. MaxEditions, unfit' \subseteq Editions,
         plain' \subseteq Editions
  PROVE  SavedAs(ps, md)
<1> DEFINE cs == RequeuedCards(cards, files, ps, wants, md)
           fs == files \ Dropped(cards, cs)
           m == ModeAfter(mode, cards, files, ps, wants, md, status)
<1>1. files' = fs /\ UNCHANGED <<status, wants, asked, translation, loops>>
  BY DEF SaveContent
<1>2. CASE status = "scheduled" /\ ~Publishable(ps, wants, unfit')
  <2>1. UNCHANGED <<posts, media, cards, mode, plan, behind>>
    BY <1>2 DEF SaveContent
  <2>2. "undone" \notin Accidents => fs = files
    BY <1>2 DEF SaveContent
  <2> HIDE DEF cs, fs, m
  <2>3. "undone" \notin Accidents => files' = files
    BY <1>1, <2>2
  <2> QED BY <1>1, <2>1, <2>3 DEF SavedAs, cs, fs
<1>3. CASE ~(status = "scheduled" /\ ~Publishable(ps, wants, unfit'))
  <2>1. /\ posts' = ps /\ media' = md /\ cards' = cs /\ mode' = m
        /\ IF status = "scheduled" /\ ~WaitsForCards(wants, md, m, cs, fs)
             THEN Replan(ps, wants, m, cs, fs) ELSE UNCHANGED <<plan, behind>>
    BY <1>3 DEF SaveContent
  <2> HIDE DEF cs, fs, m
  <2>2. Replans
    <3>1. CASE status = "scheduled" /\ ~WaitsForCards(wants, md, m, cs, fs)
      BY <1>1, <2>1, <3>1 DEF Replan, Replans, Planned
    <3>2. CASE status # "scheduled"
      BY <1>1, <2>1, <3>2 DEF Replans, NotYet
    <3>3. CASE WaitsForCards(wants, md, m, cs, fs)
      BY <1>1, <2>1, <3>1, <3>3 DEF Replans, Postponed, Awaited
    <3> QED BY <3>1, <3>2, <3>3
  <2> QED BY <1>1, <2>1, <2>2 DEF SavedAs, cs, fs, m
<1> QED BY <1>2, <1>3

LEMMA SaveEdits ==
  ASSUME TypeInv, EditMedia \/ \E l \in Locales : EditText(l)
  PROVE  \E ps, md :
           /\ GoodPosts(ps) /\ md \in BOOLEAN /\ Len(ps) = Len(posts)
           /\ \A i \in DOMAIN posts : i # 1 => ps[i] = posts[i]
           /\ \A l \in Locales : TextOf(ps[1], l) = 0 => TextOf(posts[1], l) = 0
           /\ SavedAs(ps, md)
<1>1. GoodPosts(posts) /\ media \in BOOLEAN /\ unfit \subseteq Editions /\ plain \subseteq Editions
  BY PostsAreGood DEF TypeInv, DraftTypeOK
<1>2. CASE EditMedia
  <2>1. Editing("media") /\ SaveContent(posts, ~media) /\ unfit' = unfit /\ plain' = plain
    BY <1>2 DEF EditMedia
  <2>2. SavedAs(posts, ~media)
    BY <1>1, <2>1, EditionsAreNew, SaveContentSaves DEF Editing, Open
  <2> QED BY <1>1, <2>2
<1>3. ASSUME NEW l \in Locales, EditText(l) PROVE \E ps, md :
           /\ GoodPosts(ps) /\ md \in BOOLEAN /\ Len(ps) = Len(posts)
           /\ \A i \in DOMAIN posts : i # 1 => ps[i] = posts[i]
           /\ \A k \in Locales : TextOf(ps[1], k) = 0 => TextOf(posts[1], k) = 0
           /\ SavedAs(ps, md)
  <2>1. PICK ps : ps = [posts EXCEPT ![1] = IF l = "ru" THEN [@ EXCEPT !.ru = editions']
                                                    ELSE [@ EXCEPT !.approved = editions']]
    OBVIOUS
  <2>2. Editing(l) /\ SaveContent(ps, media) /\ Fitness /\ (Wording \/ plain' = plain)
    BY <1>3, <2>1 DEF EditText
  <2>3. Edition(editions') /\ editions' \in 1 .. MaxEditions
    BY <2>2, EditionsAreNew
  <2>4. /\ GoodPosts(ps) /\ Len(ps) = Len(posts)
        /\ TextOf(ps[1], l) # 0
        /\ \A k \in Locales \ {l} : TextOf(ps[1], k) = TextOf(posts[1], k)
        /\ \A i \in DOMAIN posts : i # 1 => ps[i] = posts[i]
    BY <2>1, <2>2, TextEdited
  <2>5. unfit' \subseteq Editions /\ plain' \subseteq Editions
    BY <1>1, <2>2, <2>3 DEF Fitness, Wording, Edition
  <2>6. SavedAs(ps, media)
    BY <2>2, <2>3, <2>5, SaveContentSaves DEF Editing, Open
  <2>7. \A k \in Locales : TextOf(ps[1], k) = 0 => TextOf(posts[1], k) = 0
    BY <2>4
  <2> QED BY <1>1, <2>4, <2>6, <2>7
<1> QED BY <1>2, <1>3

LEMMA MutationReplans ==
  ASSUME NEW ps, NEW m, ReplanAfterMutation(ps, m),
         status' = status, wants' = wants, media' = media, cards' = cards, files' = files,
         posts' = ps, mode' = m
  PROVE  Replans
<1>1. CASE status # "scheduled"
  BY <1>1 DEF ReplanAfterMutation, Replans, NotYet
<1>2. CASE WaitsForCards(wants, media, m, cards, files)
  BY <1>2 DEF ReplanAfterMutation, Replans, Postponed, Awaited
<1>3. CASE status = "scheduled" /\ ~WaitsForCards(wants, media, m, cards, files)
  BY <1>3 DEF ReplanAfterMutation, Replan, Replans, Planned, Refused
<1> QED BY <1>1, <1>2, <1>3

Threading ==
  \/ MakeThread \/ AppendThreadPart
  \/ \E i \in 2 .. MaxPosts : EditThreadPart(i) \/ RemoveThreadPart(i) \/ EditThreadPartEnglish(i)
KeepsCards == UNCHANGED <<status, media, wants, cards, files, mode, loops>>

\* What a change of the thread asks of the translator.
Queued ==
  \/ asked' /\ translation' = Wanted
  \/ ~asked' /\ translation' = translation
  \/ UNCHANGED <<asked, translation>> /\ \E i \in 2 .. MaxPosts : EditThreadPartEnglish(i)

LEMMA ThreadReplans ==
  ASSUME TypeInv, Threading
  PROVE  /\ Replans /\ KeepsCards /\ Open /\ editions' \in 1 .. MaxEditions /\ unfit' \subseteq Editions
         /\ plain' \subseteq Editions /\ asked' \in BOOLEAN /\ Queued
<1>1. /\ KeepsCards /\ ReplanAfterMutation(posts', mode) /\ (Fitness \/ unfit' = unfit)
      /\ (Wording \/ plain' = plain) /\ \E edit : Editing(edit)
  BY DEF Threading, MakeThread, AppendThreadPart, EditThreadPart, RemoveThreadPart, EditThreadPartEnglish,
         ThreadChanged, KeepsCards, rendering, asking
<1>8. asked' \in BOOLEAN /\ Queued
  <2>1. ASSUME NEW ps, ThreadChanged(ps) PROVE asked' \in BOOLEAN /\ Queued
    BY <2>1 DEF ThreadChanged, Queued
  <2>2. ASSUME NEW i \in 2 .. MaxPosts, EditThreadPartEnglish(i) PROVE asked' \in BOOLEAN /\ Queued
    BY <2>2 DEF EditThreadPartEnglish, Queued, asking, TypeInv, DraftTypeOK
  <2> QED BY <2>1, <2>2 DEF Threading, MakeThread, AppendThreadPart, EditThreadPart, RemoveThreadPart
<1>2. Edition(editions') /\ editions' \in 1 .. MaxEditions /\ Open
  BY <1>1, EditionsAreNew DEF Editing, Open
<1>3. unfit' \subseteq Editions /\ plain' \subseteq Editions
  BY <1>1, <1>2 DEF Fitness, Wording, Edition, TypeInv, DraftTypeOK
<1>4. PICK ps : ps = posts'
  OBVIOUS
<1>5. PICK m : m = mode
  OBVIOUS
<1>6. ReplanAfterMutation(ps, m)
  BY <1>1, <1>4, <1>5
<1>7. Replans
  BY <1>1, <1>4, <1>5, <1>6, MutationReplans DEF KeepsCards
<1> QED BY <1>1, <1>2, <1>3, <1>7, <1>8

Choosing == (\E w \in {"en", "story", "site"} : ToggleTarget(w)) \/ Schedule
\* A choice of targets, or a new schedule: nothing that is written changes.
LEMMA ChoiceReplans ==
  ASSUME TypeInv, Choosing
  PROVE  /\ (Planned \/ Postponed \/ NotYet) /\ Open /\ status' \in {status, "scheduled"}
         /\ UNCHANGED <<posts, media, unfit, asking, cards, files, mode, translation, loops>>
         /\ wants' \subseteq {"en", "story", "site"} /\ editions' \in 1 .. MaxEditions
<1>1. CASE Schedule
  <2>1. /\ Replan(posts, wants, mode, cards, files) /\ status' = "scheduled" /\ Open
        /\ UNCHANGED <<posts, media, wants, unfit, asking, editions, cards, files, mode, translation, loops>>
    BY <1>1 DEF Schedule, rendering, Open
  <2> QED BY <2>1 DEF Replan, Planned, TypeInv, DraftTypeOK
<1>2. ASSUME NEW w \in {"en", "story", "site"}, ToggleTarget(w)
      PROVE  /\ (Planned \/ Postponed \/ NotYet) /\ Open /\ status' = status
             /\ UNCHANGED <<posts, media, unfit, asking, cards, files, mode, translation, loops>>
             /\ wants' \subseteq {"en", "story", "site"} /\ editions' \in 1 .. MaxEditions
  <2>1. PICK ws : ws = IF w \in wants THEN wants \ {w} ELSE wants \cup {w}
    OBVIOUS
  <2>2. /\ UNCHANGED <<status, posts, media, unfit, asking, cards, files, mode, translation, loops>>
        /\ wants' = ws /\ (\E edit : Editing(edit))
        /\ IF status = "scheduled" /\ ~WaitsForCards(ws, media, mode, cards, files)
             THEN Replan(posts, ws, mode, cards, files) ELSE UNCHANGED <<plan, behind>>
    BY <1>2, <2>1 DEF ToggleTarget, rendering
  <2>3. Open /\ editions' \in 1 .. MaxEditions
    BY <2>2, EditionsAreNew DEF Editing, Open
  <2>4. wants' \subseteq {"en", "story", "site"}
    BY <2>1, <2>2 DEF TypeInv, DraftTypeOK
  <2>5. Planned \/ Postponed \/ NotYet
    <3>1. CASE status # "scheduled"
      BY <2>2, <3>1 DEF NotYet
    <3>2. CASE status = "scheduled" /\ WaitsForCards(ws, media, mode, cards, files)
      BY <2>2, <3>2 DEF Postponed, Awaited
    <3>3. CASE status = "scheduled" /\ ~WaitsForCards(ws, media, mode, cards, files)
      BY <2>2, <3>3 DEF Replan, Planned
    <3> QED BY <3>1, <3>2, <3>3
  <2> QED BY <2>2, <2>3, <2>4, <2>5
<1> QED BY <1>1, <1>2 DEF Choosing

LEMMA ModeReplans ==
  ASSUME TypeInv, NEW m \in {"all", "site_only"}, SetStoryPublishMode(m)
  PROVE  /\ Replans /\ Open /\ mode' = m /\ editions' \in 1 .. MaxEditions
         /\ UNCHANGED <<status, posts, media, wants, cards, files, unfit, asking, translation, loops>>
         /\ \A l \in Locales : cards[l].status \in {"absent", "ready"}
         /\ \E l \in Locales : cards[l].status = "ready"
         /\ "one_language" \notin Accidents => TextOf(posts[1], "en") # 0
<1>1. /\ Editing("mode") /\ mode' = m /\ ReplanAfterMutation(posts, m)
      /\ UNCHANGED <<status, posts, media, wants, cards, files, unfit, asking, translation, loops>>
  BY DEF SetStoryPublishMode
<1>2. Open /\ editions' \in 1 .. MaxEditions
  BY <1>1, EditionsAreNew DEF Editing, Open
<1>3. PICK ps : ps = posts
  OBVIOUS
<1>4. Replans
  BY <1>1, <1>3, MutationReplans
<1> QED BY <1>1, <1>2, <1>4 DEF SetStoryPublishMode

Drawn == IF StillClaimed(renderer.locale)
           THEN [cards EXCEPT ![renderer.locale] = [@ EXCEPT !.status = "ready", !.path = renderer.hash]]
           ELSE cards
NotDrawn == LET spent == renderer.tries + 1 IN
  IF StillClaimed(renderer.locale)
    THEN [cards EXCEPT ![renderer.locale] = [@ EXCEPT !.status = IF Again(spent) THEN "queued" ELSE "failed",
                                                      !.tries = spent]]
    ELSE cards

\* A card that is drawn, or given up, asks for a plan if the post waited for it.
LEMMA RenderReplans ==
  ASSUME TypeInv, CardRendered \/ CardFails
  PROVE  /\ UNCHANGED <<status, posts, media, wants, unfit, asking, editions, mode, translation, translator, restarts>>
         /\ renderer # Asleep /\ renderer \in Claimed /\ renderer.tries < MaxTries /\ renderer' = Asleep
         /\ CardRendered => cards' = Drawn /\ files' = files \cup {<<renderer.locale, renderer.hash>>}
         /\ ~CardRendered => cards' = NotDrawn /\ files' = files
         /\ \/ Planned \/ Refused
            \/ /\ plan' = plan /\ behind' = behind
               /\ CardRendered => ~ReplansAfterCards(cards', files')
               /\ ~CardRendered => Again(renderer.tries + 1) \/ ~ReplansAfterFailure(cards')
<1>1. renderer # Asleep /\ renderer' = Asleep
      /\ UNCHANGED <<status, posts, media, wants, unfit, asking, editions, mode, translation, translator, restarts>>
  BY DEF CardRendered, CardFails
<1>2. renderer \in Claimed /\ renderer.tries < MaxTries
  BY <1>1 DEF TypeInv
<1>3. ASSUME NEW g \in BOOLEAN, NEW cs, NEW fs, ReplanBy(g, cs, fs), cards' = cs, files' = fs
      PROVE  Planned \/ Refused \/ (plan' = plan /\ behind' = behind /\ ~g)
  BY <1>1, <1>3 DEF ReplanBy, Replan, Planned, Refused
<1>4. CASE CardRendered
  <2>1. PICK cs : cs = IF StillClaimed(renderer.locale)
                         THEN [cards EXCEPT ![renderer.locale].status = "ready", ![renderer.locale].path = renderer.hash]
                         ELSE cards
    OBVIOUS
  <2>2. PICK fs : fs = files \cup {<<renderer.locale, renderer.hash>>}
    OBVIOUS
  <2>3. cards' = cs /\ files' = fs /\ ReplanBy(ReplansAfterCards(cs, fs), cs, fs)
    BY <1>4, <2>1, <2>2 DEF CardRendered
  <2>4. cs = Drawn
    BY <1>2, <2>1 DEF Drawn, TypeInv, DraftTypeOK, Claimed, Card
  <2>5. ReplansAfterCards(cs, fs) \in BOOLEAN
    BY DEF ReplansAfterCards
  <2> QED BY <1>1, <1>2, <1>3, <1>4, <2>2, <2>3, <2>4, <2>5
<1>5. CASE CardFails /\ ~CardRendered
  <2>1. PICK cs : cs = IF StillClaimed(renderer.locale)
                THEN [cards EXCEPT ![renderer.locale].status = IF Again(renderer.tries + 1) THEN "queued" ELSE "failed",
                                   ![renderer.locale].tries = renderer.tries + 1]
                ELSE cards
    OBVIOUS
  <2>2. cards' = cs /\ files' = files
        /\ ReplanBy(~Again(renderer.tries + 1) /\ ReplansAfterFailure(cs), cs, files)
    BY <1>5, <2>1 DEF CardFails
  <2>3. cs = NotDrawn
    BY <1>2, <2>1 DEF NotDrawn, TypeInv, DraftTypeOK, Claimed, Card
  <2>4. (~Again(renderer.tries + 1) /\ ReplansAfterFailure(cs)) \in BOOLEAN
    OBVIOUS
  <2> QED BY <1>1, <1>2, <1>3, <1>5, <2>2, <2>3, <2>4
<1> QED BY <1>4, <1>5

-----------------------------------------------------------------------------
(* Types *)

GoodCards(cs) ==
  cs \in [Locales -> Card] /\ \A l \in Locales : cs[l].status \in {"queued", "rendering"} => cs[l].tries < MaxTries

LEMMA RequeuedAreGood ==
  ASSUME NEW cs, GoodCards(cs), NEW fs, NEW ps, GoodPosts(ps), NEW ws, NEW md
  PROVE  GoodCards(RequeuedCards(cs, fs, ps, ws, md))
<1> DEFINE r == RequeuedCards(cs, fs, ps, ws, md)
<1>1. r \in [Locales -> Card]
  BY RequeuedAreCards, FirstPost DEF GoodCards
<1>2. ASSUME NEW l \in Locales, r[l].status \in {"queued", "rendering"} PROVE r[l].tries < MaxTries
  <2>1. \/ r[l] = NoCard \/ r[l] = cs[l]
        \/ r[l] = [status |-> "queued", hash |-> TextOf(ps[1], l), path |-> 0, tries |-> 0]
    BY DEF RequeuedCards, CardFor, NeedsDrawing
  <2> HIDE DEF r
  <2> QED BY <1>2, <2>1, DraftBoundsAssumption DEF NoCard, GoodCards
<1> HIDE DEF r
<1>3. GoodCards(r)
  BY <1>1, <1>2 DEF GoodCards
<1> QED BY <1>3 DEF r

LEMMA CardReplaced ==
  ASSUME TypeInv, NEW l \in Locales, NEW c \in Card,
         c.status \in {"queued", "rendering"} => c.tries < MaxTries
  PROVE  GoodCards([cards EXCEPT ![l] = c])
BY DEF TypeInv, DraftTypeOK, GoodCards

\* What an answer makes of the thread: English for each position it read.
LEMMA AnsweredThread ==
  ASSUME TypeInv, TranslationAnswers
  PROVE  /\ GoodPosts(posts') /\ Len(posts') = Len(posts)
         /\ translator # Asleep /\ translator' = Asleep /\ translation' = Settled
         /\ \A i \in DOMAIN posts : posts'[i] = IF i \in DOMAIN translator.texts
              THEN [posts[i] EXCEPT !.machine = translator.texts[i]] ELSE posts[i]
         /\ \A l \in Locales : TextOf(posts'[1], l) # 0
         /\ ThreadIn(posts', "ru") = ThreadIn(posts, "ru")
         /\ LET cs == RequeuedCards(cards, files, posts', wants, media) IN
              cards' = cs /\ files' = files \ Dropped(cards, cs) /\ mode' = ModeAfter(mode, cards, files, posts', wants, media, status)
         /\ UNCHANGED <<status, media, wants, unfit, asking, editions, plan, renderer, restarts, behind>>
<1>1. GoodPosts(posts)
  BY PostsAreGood
<1>2. /\ posts' = [i \in DOMAIN posts |->
               IF i \in DOMAIN translator.texts THEN [posts[i] EXCEPT !.machine = translator.texts[i]] ELSE posts[i]]
      /\ translator # Asleep /\ translator' = Asleep /\ translation' = Settled
      /\ LET cs == RequeuedCards(cards, files, posts', wants, media) IN
              cards' = cs /\ files' = files \ Dropped(cards, cs) /\ mode' = ModeAfter(mode, cards, files, posts', wants, media, status)
      /\ UNCHANGED <<status, media, wants, unfit, asking, editions, plan, renderer, restarts, behind>>
  BY DEF TranslationAnswers
<1>3. translator \in Asked /\ 1 \in DOMAIN translator.texts /\ \A i \in DOMAIN translator.texts : translator.texts[i] # 0
  BY <1>2 DEF TypeInv
<1>4. \A i \in DOMAIN translator.texts : translator.texts[i] \in Editions
  BY <1>3, ElementOfSeq, LenProperties DEF Asked
<1>5. DOMAIN posts = 1 .. Len(posts) /\ Len(posts) \in Nat /\ 1 \in DOMAIN posts
      /\ \A i \in DOMAIN posts : posts[i] \in Post /\ posts[i].ru # 0
  BY <1>1, FirstPost DEF GoodPosts
<1>6. \A i \in DOMAIN posts : posts'[i] = IF i \in DOMAIN translator.texts
              THEN [posts[i] EXCEPT !.machine = translator.texts[i]] ELSE posts[i]
  BY <1>2
<1>7. \A i \in DOMAIN posts : posts'[i] \in Post /\ posts'[i].ru = posts[i].ru
  BY <1>4, <1>5, <1>6 DEF Post
<1>8. posts' \in Seq(Post) /\ Len(posts') = Len(posts) /\ DOMAIN posts' = DOMAIN posts
  <2>1. posts' \in [1 .. Len(posts) -> Post]
    BY <1>2, <1>5, <1>7
  <2> QED BY <1>5, <2>1, IsASeq, LenProperties
<1>9. GoodPosts(posts')
  BY <1>1, <1>5, <1>7, <1>8 DEF GoodPosts
<1>10. \A l \in Locales : TextOf(posts'[1], l) # 0
  <2>1. posts'[1].machine = translator.texts[1] /\ posts'[1].ru # 0
    BY <1>3, <1>5, <1>6, <1>7 DEF Post
  <2> QED BY <1>3, <2>1 DEF TextOf
<1>11. ThreadIn(posts', "ru") = ThreadIn(posts, "ru")
  BY <1>7, <1>8 DEF ThreadIn, TextOf
<1> QED BY <1>2, <1>6, <1>8, <1>9, <1>10, <1>11

LEMMA CardsStep ==
  ASSUME TypeInv, DraftNext
  PROVE  GoodCards(cards') /\ files' \subseteq Locales \X Editions /\ mode' \in {"none", "all", "site_only"}
<1>1. GoodCards(cards) /\ files \subseteq Locales \X Editions /\ mode \in {"none", "all", "site_only"} /\ GoodPosts(posts)
  BY PostsAreGood DEF TypeInv, DraftTypeOK, GoodCards
<1>2. CASE cards' = cards /\ files' = files /\ mode' = mode
  BY <1>1, <1>2
<1>3. CASE EditMedia \/ \E l \in Locales : EditText(l)
  <2>1. PICK ps, md : GoodPosts(ps) /\ SavedAs(ps, md)
    BY <1>3, SaveEdits
  <2>2. GoodCards(RequeuedCards(cards, files, ps, wants, md))
    BY <1>1, <2>1, RequeuedAreGood
  <2>3. mode' \in {mode, ModeAfter(mode, cards, files, ps, wants, md, status)}
    BY <2>1 DEF SavedAs
  <2>4. mode' \in {mode, "none"}
    BY <2>3 DEF ModeAfter
  <2>5. cards' \in {cards, RequeuedCards(cards, files, ps, wants, md)} /\ \E S : files' = files \ S
    BY <2>1 DEF SavedAs
  <2> QED BY <1>1, <2>2, <2>4, <2>5
<1>4. CASE \E m \in {"all", "site_only"} : SetStoryPublishMode(m)
  BY <1>1, <1>4, ModeReplans
<1>5. CASE CancelPost
  <2>1. NoCard \in Card
    BY DraftBoundsAssumption DEF NoCard, Card, CardStatus, Editions
  <2>2. cards' = [l \in Locales |-> NoCard] /\ files' = files \ FilesOf(cards) /\ mode' = mode
    BY <1>5 DEF CancelPost
  <2> QED BY <1>1, <2>1, <2>2 DEF GoodCards, NoCard
<1>6. CASE TranslationAnswers
  <2>1. PICK ps : posts' = ps
    OBVIOUS
  <2>2. /\ GoodPosts(posts')
        /\ LET cs == RequeuedCards(cards, files, posts', wants, media) IN
             cards' = cs /\ files' = files \ Dropped(cards, cs) /\ mode' = ModeAfter(mode, cards, files, posts', wants, media, status)
    BY <1>6, AnsweredThread
  <2>3. GoodCards(RequeuedCards(cards, files, ps, wants, media))
    BY <1>1, <2>1, <2>2, RequeuedAreGood
  <2>4. mode' \in {mode, "none"} /\ \E S : files' = files \ S
    BY <2>2 DEF ModeAfter
  <2> QED BY <1>1, <2>1, <2>2, <2>3, <2>4
<1>7. CASE CardRendered \/ CardFails
  <2>1. /\ mode' = mode /\ renderer \in Claimed /\ renderer.tries < MaxTries
        /\ CardRendered => cards' = Drawn /\ files' = files \cup {<<renderer.locale, renderer.hash>>}
        /\ ~CardRendered => cards' = NotDrawn /\ files' = files
    BY <1>7, RenderReplans
  <2>2. renderer.locale \in Locales /\ renderer.hash \in Editions /\ renderer.tries + 1 \in 0 .. MaxTries
        /\ (Again(renderer.tries + 1) <=> renderer.tries + 1 < MaxTries)
    BY <2>1, DraftBoundsAssumption DEF Claimed, Again
  <2>3. cards[renderer.locale] \in Card
    BY <1>1, <2>2 DEF GoodCards
  <2>4. GoodCards(Drawn)
    BY <1>1, <2>2, <2>3, CardReplaced DEF Drawn, Card, CardStatus
  <2>5. GoodCards(NotDrawn)
    <3>1. CASE Again(renderer.tries + 1)
      <4>1. PICK c : c = [cards[renderer.locale] EXCEPT !.status = "queued", !.tries = renderer.tries + 1]
        OBVIOUS
      <4>2. c \in Card /\ c.status = "queued" /\ c.tries = renderer.tries + 1
        BY <2>2, <2>3, <4>1 DEF Card, CardStatus
      <4>3. GoodCards([cards EXCEPT ![renderer.locale] = c])
        BY <2>2, <3>1, <4>2, CardReplaced
      <4>4. NotDrawn \in {cards, [cards EXCEPT ![renderer.locale] = c]}
        BY <3>1, <4>1 DEF NotDrawn
      <4> QED BY <1>1, <4>3, <4>4
    <3>2. CASE ~Again(renderer.tries + 1)
      <4>1. PICK c : c = [cards[renderer.locale] EXCEPT !.status = "failed", !.tries = renderer.tries + 1]
        OBVIOUS
      <4>2. c \in Card /\ c.status = "failed" /\ c.tries = renderer.tries + 1
        BY <2>2, <2>3, <4>1 DEF Card, CardStatus
      <4>3. GoodCards([cards EXCEPT ![renderer.locale] = c])
        BY <2>2, <3>2, <4>2, CardReplaced
      <4>4. NotDrawn \in {cards, [cards EXCEPT ![renderer.locale] = c]}
        BY <3>2, <4>1 DEF NotDrawn
      <4> QED BY <1>1, <4>3, <4>4
    <3> QED BY <3>1, <3>2
  <2> QED BY <1>1, <2>1, <2>2, <2>4, <2>5
<1>8. ASSUME NEW l \in Locales, ClaimCard(l) \/ RecoverCard(l)
      PROVE  GoodCards(cards') /\ files' = files /\ mode' = mode
  <2>1. PICK st \in {"queued", "rendering"} : cards' = [cards EXCEPT ![l].status = st]
    BY <1>8 DEF ClaimCard, RecoverCard
  <2>2. cards[l].status \in {"queued", "rendering"} /\ files' = files /\ mode' = mode
    BY <1>8 DEF ClaimCard, RecoverCard
  <2>3. cards[l] \in Card /\ cards[l].tries < MaxTries
    BY <1>1, <2>2 DEF GoodCards
  <2>4. [cards[l] EXCEPT !.status = st] \in Card /\ [cards[l] EXCEPT !.status = st].tries < MaxTries
    BY <2>3 DEF Card, CardStatus
  <2>5. cards' = [cards EXCEPT ![l] = [cards[l] EXCEPT !.status = st]]
    BY <2>1
  <2> QED BY <2>2, <2>4, <2>5, CardReplaced
<1>9. CASE Threading \/ Choosing \/ Deliver \/ Restart \/ ClaimTranslation \/ TranslationFails
  <2>1. cards' = cards /\ files' = files /\ mode' = mode
    BY <1>9, ThreadReplans, ChoiceReplans DEF KeepsCards, Deliver, Restart, ClaimTranslation,
       TranslationFails, rendering
  <2> QED BY <1>1, <2>1
<1> QED BY <1>1, <1>3, <1>4, <1>5, <1>6, <1>7, <1>8, <1>9 DEF DraftNext, Author, Translating, Drawing,
           Threading, Choosing

LEMMA PostsStep ==
  ASSUME TypeInv, DraftNext
  PROVE  GoodPosts(posts')
<1>1. GoodPosts(posts)
  BY PostsAreGood
<1>2. CASE EditMedia \/ \E l \in Locales : EditText(l)
  <2>1. PICK ps, md : GoodPosts(ps) /\ SavedAs(ps, md)
    BY <1>2, SaveEdits
  <2>2. posts' = posts \/ posts' = ps
    BY <2>1 DEF SavedAs
  <2> QED BY <1>1, <2>1, <2>2
<1>3. CASE Threading
  BY <1>3, ThreadEdited DEF Threading
<1>4. CASE TranslationAnswers
  BY <1>4, AnsweredThread
<1>5. CASE \/ Choosing \/ Deliver \/ CancelPost \/ Restart \/ ClaimTranslation \/ TranslationFails
           \/ CardRendered \/ CardFails \/ (\E l \in Locales : ClaimCard(l) \/ RecoverCard(l))
           \/ (\E m \in {"all", "site_only"} : SetStoryPublishMode(m))
  <2>1. posts' = posts
    BY <1>5, ChoiceReplans, ModeReplans, RenderReplans
       DEF Deliver, CancelPost, Restart, ClaimTranslation, TranslationFails, ClaimCard, RecoverCard, writing
  <2> QED BY <1>1, <2>1
<1> QED BY <1>2, <1>3, <1>4, <1>5 DEF DraftNext, Author, Translating, Drawing, Threading, Choosing

PlanFits == Plan(plan) /\ behind \in {"no", "refused", "unseen", "english"}

LEMMA PlanStep ==
  ASSUME TypeInv, DraftNext
  PROVE  PlanFits'
<1>1. PlanFits
  BY DEF TypeInv, DraftTypeOK, PlanFits, Plan
<1>2. CASE Replans
  <2>1. Plan(PlanOf(posts', wants', mode', cards', files'))
    BY PostsStep, CardsStep, PlansAreTyped DEF GoodPosts, GoodCards
  <2> QED BY <1>1, <1>2, <2>1 DEF Replans, Planned, Refused, Postponed, NotYet, PlanFits, Plan
<1>3. CASE plan' = plan /\ behind' = behind
  BY <1>1, <1>3 DEF PlanFits, Plan
<1>4. CASE plan' = NoPlan /\ behind' = "no"
  <2>1. <<>> \in Seq(Editions)
    BY EmptySeq
  <2> QED BY <1>4, <2>1 DEF PlanFits, Plan, NoPlan
<1>5. CASE EditMedia \/ \E l \in Locales : EditText(l)
  <2>1. PICK ps, md : SavedAs(ps, md)
    BY <1>5, SaveEdits
  <2>2. Replans \/ (plan' = plan /\ behind' = behind)
    BY <2>1 DEF SavedAs
  <2> QED BY <1>2, <1>3, <2>2
<1>6. CASE Threading \/ Choosing \/ \E m \in {"all", "site_only"} : SetStoryPublishMode(m)
  BY <1>2, <1>6, ThreadReplans, ChoiceReplans, ModeReplans DEF Replans
<1>7. CASE CardRendered \/ CardFails
  BY <1>2, <1>3, <1>7, RenderReplans DEF Replans
<1>8. CASE Deliver \/ CancelPost
  BY <1>4, <1>8 DEF Deliver, CancelPost
<1>9. CASE \/ Restart \/ ClaimTranslation \/ TranslationFails \/ TranslationAnswers
           \/ \E l \in Locales : ClaimCard(l) \/ RecoverCard(l)
  BY <1>3, <1>9 DEF Restart, ClaimTranslation, TranslationFails, TranslationAnswers, ClaimCard, RecoverCard
<1> QED BY <1>5, <1>6, <1>7, <1>8, <1>9 DEF DraftNext, Author, Translating, Drawing, Threading, Choosing

LoopsFit ==
  /\ translation \in Translation /\ (translation.status \in Coming => translation.tries < MaxTries)
  /\ translator = Asleep \/ (/\ translator \in Asked /\ 1 \in DOMAIN translator.texts
                             /\ \A i \in DOMAIN translator.texts : translator.texts[i] # 0)
  /\ renderer = Asleep \/ (renderer \in Claimed /\ renderer.tries < MaxTries)

LEMMA LoopsStep ==
  ASSUME TypeInv, DraftNext
  PROVE  LoopsFit'
<1>1. LoopsFit
  BY DEF TypeInv, DraftTypeOK, LoopsFit
<1>2. 0 \in 0 .. MaxTries /\ 0 < MaxTries
  BY DraftBoundsAssumption
<1>3. NoTranslation \in Translation /\ NoTranslation.status \notin Coming
      /\ Wanted \in Translation /\ Wanted.tries < MaxTries
  BY <1>2 DEF NoTranslation, Wanted, Translation, Coming
<1>4. CASE translation' \in {translation, Wanted, NoTranslation} /\ translator' \in {translator, Asleep}
           /\ renderer' \in {renderer, Asleep}
  <2>1. translation' \in Translation /\ (translation'.status \in Coming => translation'.tries < MaxTries)
    BY <1>1, <1>3, <1>4 DEF LoopsFit
  <2> QED BY <1>1, <1>4, <2>1 DEF LoopsFit
<1>5. CASE EditMedia \/ \E l \in Locales : EditText(l)
  <2>1. PICK ps, md : SavedAs(ps, md)
    BY <1>5, SaveEdits
  <2> QED BY <1>4, <2>1 DEF SavedAs, loops
<1>6. CASE Threading \/ Choosing \/ \E m \in {"all", "site_only"} : SetStoryPublishMode(m)
  BY <1>4, <1>6, ThreadReplans, ChoiceReplans, ModeReplans DEF KeepsCards, Queued, loops
<1>7. CASE CardRendered \/ CardFails \/ TranslationAnswers
  BY <1>4, <1>7, RenderReplans, AnsweredThread DEF Settled
<1>8. CASE Deliver \/ CancelPost \/ Restart \/ \E l \in Locales : RecoverCard(l)
  BY <1>4, <1>8 DEF Deliver, CancelPost, Restart, RecoverCard, loops
<1>9. CASE ClaimTranslation
  <2>1. /\ translation.status \in Coming /\ translation' = [translation EXCEPT !.status = "translating"]
        /\ translator' = [busy |-> TRUE, texts |-> ThreadIn(posts, "ru")] /\ renderer' = renderer
    BY <1>9 DEF ClaimTranslation
  <2>2. translation' \in Translation /\ translation'.tries < MaxTries
    BY <1>1, <2>1 DEF LoopsFit, Translation
  <2>3. ThreadIn(posts, "ru") \in Seq(Editions) /\ DOMAIN ThreadIn(posts, "ru") = DOMAIN posts
        /\ \A i \in DOMAIN posts : ThreadIn(posts, "ru")[i] # 0
    BY PostsAreGood, ThreadsAreSequences DEF GoodPosts, ThreadIn, TextOf, Locales
  <2>4. 1 \in DOMAIN posts
    BY PostsAreGood, FirstPost
  <2>5. translator' \in Asked /\ translator'.texts = ThreadIn(posts, "ru")
    BY <2>1, <2>3 DEF Asked
  <2> QED BY <1>1, <2>1, <2>2, <2>3, <2>4, <2>5 DEF LoopsFit
<1>10. CASE TranslationFails
  <2>1. /\ translator' = Asleep /\ renderer' = renderer
        /\ translation' = IF translation.status # "translating" THEN translation
             ELSE [status |-> IF Again(translation.tries + 1) THEN "queued" ELSE "failed", tries |-> translation.tries + 1]
    BY <1>10 DEF TranslationFails
  <2>2. translation.status = "translating" => translation.tries + 1 \in 0 .. MaxTries
    BY <1>1, DraftBoundsAssumption DEF LoopsFit, Translation, Coming
  <2>3. translation' \in Translation /\ (translation'.status \in Coming => translation'.tries < MaxTries)
    BY <1>1, <2>1, <2>2 DEF LoopsFit, Translation, Again, Coming
  <2> QED BY <1>1, <2>1, <2>3 DEF LoopsFit
<1>11. ASSUME NEW l \in Locales, ClaimCard(l) PROVE LoopsFit'
  <2>1. /\ translation' = translation /\ translator' = translator /\ cards[l].status = "queued"
        /\ renderer' = [busy |-> TRUE, locale |-> l, hash |-> cards[l].hash, tries |-> cards[l].tries]
    BY <1>11 DEF ClaimCard
  <2>2. renderer' \in Claimed /\ renderer'.tries < MaxTries
    BY <2>1 DEF TypeInv, DraftTypeOK, Card, Claimed
  <2> QED BY <1>1, <2>1, <2>2 DEF LoopsFit
<1> QED BY <1>5, <1>6, <1>7, <1>8, <1>9, <1>10, <1>11 DEF DraftNext, Author, Translating, Drawing,
           Threading, Choosing

LEMMA TypeStep == TypeInv /\ [DraftNext]_draftVars => TypeInv'
<1> SUFFICES ASSUME TypeInv, [DraftNext]_draftVars PROVE TypeInv'
  OBVIOUS
<1>1. CASE UNCHANGED draftVars
  BY <1>1 DEF draftVars, writing, asking, rendering, loops, TypeInv, DraftTypeOK
<1>2. CASE DraftNext
  <2>1. /\ status' \in {"needs_review", "scheduled", "published", "cancelled"}
        /\ media' \in BOOLEAN /\ wants' \subseteq {"en", "story", "site"}
        /\ unfit' \subseteq Editions /\ plain' \subseteq Editions /\ asked' \in BOOLEAN
        /\ editions' \in 1 .. MaxEditions /\ restarts' \in 0 .. MaxCrashes
    <3>1. /\ status \in {"needs_review", "scheduled", "published", "cancelled"}
          /\ media \in BOOLEAN /\ wants \subseteq {"en", "story", "site"}
          /\ unfit \subseteq Editions /\ plain \subseteq Editions /\ asked \in BOOLEAN
          /\ editions \in 1 .. MaxEditions /\ restarts \in 0 .. MaxCrashes
      BY DEF TypeInv, DraftTypeOK
    <3>2. CASE EditMedia \/ \E l \in Locales : EditText(l)
      <4>1. PICK ps, md : md \in BOOLEAN /\ SavedAs(ps, md)
        BY <3>2, SaveEdits
      <4> QED BY <3>1, <4>1 DEF SavedAs, loops
    <3>3. CASE Threading
      BY <3>1, <3>3, ThreadReplans DEF KeepsCards, loops
    <3>4. CASE Choosing
      BY <3>1, <3>4, ChoiceReplans DEF asking, loops
    <3>5. CASE \E m \in {"all", "site_only"} : SetStoryPublishMode(m)
      BY <3>1, <3>5, ModeReplans DEF asking, loops
    <3>6. CASE CardRendered \/ CardFails
      BY <3>1, <3>6, RenderReplans DEF asking
    <3>7. CASE TranslationAnswers
      BY <3>1, <3>7, AnsweredThread DEF asking
    <3>8. CASE \/ Deliver \/ CancelPost \/ Restart \/ ClaimTranslation \/ TranslationFails
               \/ \E l \in Locales : ClaimCard(l) \/ RecoverCard(l)
      BY <3>1, <3>8, DraftBoundsAssumption DEF Deliver, CancelPost, Restart, ClaimTranslation,
         TranslationFails, ClaimCard, RecoverCard, writing, asking, loops
    <3> QED BY <1>2, <3>2, <3>3, <3>4, <3>5, <3>6, <3>7, <3>8
            DEF DraftNext, Author, Translating, Drawing, Threading, Choosing
  <2> QED BY <1>2, <2>1, PostsStep, CardsStep, PlanStep, LoopsStep
          DEF TypeInv, DraftTypeOK, GoodPosts, GoodCards, PlanFits, Plan, LoopsFit
<1> QED BY <1>1, <1>2

LEMMA TypeStarts == DraftInit => TypeInv
<1> SUFFICES ASSUME DraftInit PROVE TypeInv
  OBVIOUS
<1>1. 0 \in Editions /\ 1 \in Editions /\ 1 \in 1 .. MaxEditions /\ 1 \in 1 .. MaxPosts /\ 0 \in 0 .. MaxCrashes
      /\ 0 \in 0 .. MaxTries /\ 0 < MaxTries
  BY DraftBoundsAssumption DEF Editions
<1> DEFINE p == [ru |-> 1, machine |-> 0, approved |-> 0]
<1>2. p \in Post /\ p.ru # 0
  BY <1>1 DEF Post
<1> HIDE DEF p
<1>3. <<p>> \in Seq(Post) /\ Len(<<p>>) = 1 /\ DOMAIN <<p>> = 1 .. 1 /\ <<p>>[1] = p
  BY <1>2
<1>4. posts = <<p>>
  BY DEF DraftInit, p
<1>5. posts \in Seq(Post) /\ Len(posts) \in 1 .. MaxPosts /\ \A i \in DOMAIN posts : posts[i].ru # 0
  BY <1>1, <1>2, <1>3, <1>4
<1>6. cards \in [Locales -> Card] /\ \A l \in Locales : cards[l].tries < MaxTries
  BY <1>1 DEF DraftInit, NoCard, Card, CardStatus
<1>7. <<>> \in Seq(Editions)
  BY EmptySeq
<1>8. translation \in Translation /\ translation.tries < MaxTries
  BY <1>1 DEF DraftInit, Wanted, NoTranslation, Translation
<1>9. plan.ru \in Seq(Editions) /\ plan.en \in Seq(Editions) /\ plan.story = {}
  BY <1>7 DEF DraftInit, NoPlan
<1>10. plain \subseteq Editions /\ asked \in BOOLEAN
  BY <1>1 DEF DraftInit
<1> QED BY <1>1, <1>5, <1>6, <1>8, <1>9, <1>10 DEF DraftInit, TypeInv, DraftTypeOK

-----------------------------------------------------------------------------
(* English *)

LEMMA EnglishKept ==
  ASSUME EnglishInv, asked' = asked, translation' = translation, translator' \in {translator, Asleep},
         Len(posts') = Len(posts),
         \A i \in 2 .. Len(posts) : posts'[i].ru = posts[i].ru /\ posts'[i].machine = posts[i].machine
  PROVE  EnglishInv'
BY DEF EnglishInv, EnglishOfThisPost, ThreadIsTranslated

LEMMA PartsInEnglish ==
  ASSUME TypeInv, NEW i \in 2 .. MaxPosts, EditThreadPartEnglish(i)
  PROVE  /\ Len(posts') = Len(posts) /\ UNCHANGED <<asked, translation, translator>>
         /\ \A j \in 2 .. Len(posts) : posts'[j].ru = posts[j].ru /\ posts'[j].machine = posts[j].machine
<1>1. GoodPosts(posts) /\ DOMAIN posts = 1 .. Len(posts) /\ \A j \in DOMAIN posts : posts[j] \in Post /\ posts[j].ru # 0
  BY PostsAreGood, FirstPost DEF GoodPosts
<1>2. Edition(editions') /\ i \in DOMAIN posts
  BY <1>1, EditionsAreNew DEF EditThreadPartEnglish
<1> DEFINE p == [posts[i] EXCEPT !.approved = editions']
<1>3. posts' = [posts EXCEPT ![i] = p] /\ UNCHANGED <<asked, translation, translator>>
  BY DEF EditThreadPartEnglish, asking, loops
<1>4. p \in Post /\ p.ru = posts[i].ru /\ p.machine = posts[i].machine /\ p.ru # 0
  BY <1>1, <1>2 DEF Post, Edition
<1> HIDE DEF p
<1>5. /\ Len([posts EXCEPT ![i] = p]) = Len(posts)
      /\ \A j \in DOMAIN posts : [posts EXCEPT ![i] = p][j] = IF j = i THEN p ELSE posts[j]
  BY <1>1, <1>2, <1>4, PostReplaced
<1>6. \A j \in 2 .. Len(posts) : j \in DOMAIN posts
  BY <1>1
<1> QED BY <1>3, <1>4, <1>5, <1>6

LEMMA EnglishStep ==
  ASSUME TypeInv, EnglishInv, DraftNext
  PROVE  EnglishInv'
<1>1. CASE EditMedia \/ \E l \in Locales : EditText(l)
  <2>1. PICK ps, md : /\ Len(ps) = Len(posts) /\ SavedAs(ps, md)
                      /\ \A i \in DOMAIN posts : i # 1 => ps[i] = posts[i]
    BY <1>1, SaveEdits
  <2>2. \A i \in 2 .. Len(posts) : i \in DOMAIN posts /\ i # 1
    BY PostsAreGood, FirstPost
  <2>3. Len(posts') = Len(posts) /\ \A i \in 2 .. Len(posts) : posts'[i] = posts[i]
    BY <2>1, <2>2 DEF SavedAs
  <2>4. UNCHANGED <<asked, translation, translator>>
    BY <2>1 DEF SavedAs, loops
  <2> QED BY <2>3, <2>4, EnglishKept
<1>2. CASE Threading
  <2>0. Queued /\ translator' = translator
    BY <1>2, ThreadReplans DEF KeepsCards, loops
  <2>1. CASE translation' = Wanted
    BY <2>1 DEF EnglishInv, EnglishOfThisPost, ThreadIsTranslated, Wanted, Coming
  <2>2. CASE \E i \in 2 .. MaxPosts : EditThreadPartEnglish(i)
    BY <2>2, PartsInEnglish, EnglishKept
  <2>3. CASE ~asked' /\ translation' = translation
    BY <2>0, <2>3 DEF EnglishInv, EnglishOfThisPost
  <2> QED BY <2>0, <2>1, <2>2, <2>3 DEF Queued
<1>3. CASE ClaimTranslation
  <2>1. /\ translator' = [busy |-> TRUE, texts |-> ThreadIn(posts, "ru")] /\ posts' = posts
        /\ translation' = [translation EXCEPT !.status = "translating"]
    BY <1>3 DEF ClaimTranslation, writing
  <2>2. translation'.status = "translating"
    BY <2>1 DEF TypeInv, DraftTypeOK, Translation
  <2>3. \A i \in 2 .. Len(posts) : i \in DOMAIN posts
    BY PostsAreGood, FirstPost
  <2>4. \A i \in DOMAIN posts : i \in DOMAIN ThreadIn(posts, "ru") /\ ThreadIn(posts, "ru")[i] = posts[i].ru
    BY DEF ThreadIn, TextOf
  <2>5. translator'.texts = ThreadIn(posts, "ru")
    BY <2>1
  <2> QED BY <2>1, <2>2, <2>3, <2>4, <2>5 DEF EnglishInv, EnglishOfThisPost, ThreadIsTranslated, Coming
<1>4. CASE TranslationAnswers
  <2>1. /\ Len(posts') = Len(posts) /\ translator # Asleep /\ translator' = Asleep /\ translation' = Settled
        /\ \A i \in DOMAIN posts : posts'[i] = IF i \in DOMAIN translator.texts
              THEN [posts[i] EXCEPT !.machine = translator.texts[i]] ELSE posts[i]
        /\ asked' = asked
    BY <1>4, AnsweredThread DEF asking
  <2>2. translation'.status = "absent" => translation.status = "translating"
    BY <2>1 DEF EnglishInv, Settled, Coming
  <2>3. ASSUME asked, translation.status = "translating", NEW i \in 2 .. Len(posts)
        PROVE  posts'[i].machine = posts'[i].ru
    <3>1. i \in DOMAIN posts /\ posts[i] \in Post
      BY PostsAreGood, FirstPost
    <3>2. i \in DOMAIN translator.texts /\ translator.texts[i] = posts[i].ru
      BY <2>1, <2>3 DEF EnglishInv
    <3> QED BY <2>1, <3>1, <3>2 DEF Post
  <2> QED BY <2>1, <2>2, <2>3 DEF EnglishInv, EnglishOfThisPost, ThreadIsTranslated
<1>5. CASE TranslationFails
  BY <1>5 DEF TranslationFails, EnglishInv, EnglishOfThisPost, ThreadIsTranslated, Coming
<1>6. CASE \/ Choosing \/ CardRendered \/ CardFails \/ Deliver \/ CancelPost \/ Restart
           \/ (\E m \in {"all", "site_only"} : SetStoryPublishMode(m))
           \/ (\E l \in Locales : ClaimCard(l) \/ RecoverCard(l))
  <2>1. posts' = posts /\ UNCHANGED <<asked, translation>> /\ translator' \in {translator, Asleep}
    BY <1>6, ChoiceReplans, ModeReplans, RenderReplans
       DEF loops, Deliver, CancelPost, Restart, ClaimCard, RecoverCard, writing, asking
  <2> QED BY <2>1, EnglishKept
<1> QED BY <1>1, <1>2, <1>3, <1>4, <1>5, <1>6 DEF DraftNext, Author, Translating, Drawing, Threading, Choosing

-----------------------------------------------------------------------------
(* Cards *)

\* What looking at the texts again makes of cards that were right.
CardsAreRight(cs) == \A l \in Locales : cs[l].status = "ready" => cs[l].path = cs[l].hash
CardsOf(cs, ps) == \A l \in Locales : cs[l].status # "absent" => cs[l].hash = TextOf(ps[1], l)

LEMMA RequeuedAreRight ==
  ASSUME CardsInv, cards \in [Locales -> Card], NEW ps, NEW md,
         (renderer' = renderer) \/ renderer' = Asleep,
         cards' = RequeuedCards(cards, files, ps, wants, md)
  PROVE  /\ CardsAreRight(cards')
         /\ renderer' # Asleep /\ cards'[renderer'.locale].status = "rendering" /\ renderer'.locale \in Locales =>
              renderer'.hash = cards'[renderer'.locale].hash
         /\ \A l \in Locales : cards'[l].status # "absent" =>
              \/ TextOf(ps[1], l) # 0 /\ cards'[l].hash = TextOf(ps[1], l)
              \/ TextOf(ps[1], l) = 0 /\ cards'[l] = cards[l]
<1> DEFINE fresh(l) == [status |-> "queued", hash |-> TextOf(ps[1], l), path |-> 0, tries |-> 0]
           none == NoCard
<1>1. \A l \in Locales : fresh(l).status = "queued" /\ fresh(l).hash = TextOf(ps[1], l)
  OBVIOUS
<1>2. none.status = "absent"
  BY DEF NoCard
<1>3. ASSUME NEW l \in Locales
      PROVE  \/ cards'[l] = none
             \/ cards'[l] = fresh(l) /\ TextOf(ps[1], l) # 0
             \/ TextOf(ps[1], l) = 0 /\ cards'[l] = cards[l]
             \/ /\ TextOf(ps[1], l) # 0 /\ cards'[l] = cards[l]
                /\ cards'[l].hash = TextOf(ps[1], l) /\ cards'[l].status = "ready"
  <2>1. cards'[l] = none \/ cards'[l] = CardFor(cards, files, ps, l)
    BY DEF RequeuedCards
  <2>2. PICK text : text = TextOf(ps[1], l)
    OBVIOUS
  <2>3. \/ CardFor(cards, files, ps, l) = fresh(l) /\ text # 0
        \/ CardFor(cards, files, ps, l) = cards[l] /\ (text = 0 \/ (cards[l].hash = text /\ cards[l].status = "ready"))
    BY <2>2 DEF CardFor, NeedsDrawing
  <2> QED BY <2>1, <2>2, <2>3
<1> HIDE DEF fresh, none
<1>4. \A l \in Locales : cards'[l].status \in {"ready", "rendering"} => cards'[l] = cards[l]
  BY <1>1, <1>2, <1>3
<1>5. CardsAreRight(cards')
  BY <1>4 DEF CardsAreRight, CardsInv
<1>6. renderer' # Asleep /\ cards'[renderer'.locale].status = "rendering" /\ renderer'.locale \in Locales =>
              renderer'.hash = cards'[renderer'.locale].hash
  BY <1>4 DEF CardsInv
<1>7. \A l \in Locales : cards'[l].status # "absent" =>
              \/ TextOf(ps[1], l) # 0 /\ cards'[l].hash = TextOf(ps[1], l)
              \/ TextOf(ps[1], l) = 0 /\ cards'[l] = cards[l]
  BY <1>1, <1>2, <1>3
<1> QED BY <1>5, <1>6, <1>7

LEMMA PicturesKept ==
  ASSUME TypeInv, CardsInv, cards' = cards, renderer' \in {renderer, Asleep},
         asked' /\ translation'.status = "absent" =>
           asked /\ translation.status = "absent" /\ posts'[1] = posts[1]
  PROVE  CardsInv'
BY DEF CardsInv

LEMMA PicturesStep ==
  ASSUME TypeInv, CardsInv, DraftNext
  PROVE  CardsInv'
<1>1. cards \in [Locales -> Card] /\ (renderer # Asleep => renderer \in Claimed /\ renderer.locale \in Locales)
  BY DEF TypeInv, DraftTypeOK, Claimed
<1>2. CASE EditMedia \/ \E l \in Locales : EditText(l)
  <2>1. PICK ps, md : /\ SavedAs(ps, md)
                      /\ \A l \in Locales : TextOf(ps[1], l) = 0 => TextOf(posts[1], l) = 0
    BY <1>2, SaveEdits
  <2>2. UNCHANGED <<asked, translation, renderer>>
    BY <2>1 DEF SavedAs, loops
  <2>3. CASE posts' = posts /\ cards' = cards
    BY <2>2, <2>3, PicturesKept
  <2>4. CASE posts' = ps /\ cards' = RequeuedCards(cards, files, ps, wants, md)
    <3>1. /\ CardsAreRight(cards')
          /\ renderer' # Asleep /\ cards'[renderer'.locale].status = "rendering" /\ renderer'.locale \in Locales =>
               renderer'.hash = cards'[renderer'.locale].hash
          /\ \A l \in Locales : cards'[l].status # "absent" =>
               \/ TextOf(ps[1], l) # 0 /\ cards'[l].hash = TextOf(ps[1], l)
               \/ TextOf(ps[1], l) = 0 /\ cards'[l] = cards[l]
      BY <1>1, <2>2, <2>4, RequeuedAreRight
    <3>2. asked /\ translation.status = "absent" => \A l \in Locales : cards'[l].status # "absent" => cards'[l].hash = TextOf(ps[1], l)
      BY <2>1, <3>1 DEF CardsInv
    <3> QED BY <1>1, <2>2, <2>4, <3>1, <3>2 DEF CardsInv, CardsAreRight
  <2> QED BY <2>1, <2>3, <2>4 DEF SavedAs
<1>3. CASE Threading
  <2>1. cards' = cards /\ renderer' = renderer /\ Queued
    BY <1>3, ThreadReplans DEF KeepsCards, loops
  <2>2. CASE translation' = Wanted
    BY <2>1, <2>2, PicturesKept DEF Wanted
  <2>3. CASE UNCHANGED <<asked, translation>> /\ \E i \in 2 .. MaxPosts : EditThreadPartEnglish(i)
    <3>1. PICK i \in 2 .. MaxPosts : EditThreadPartEnglish(i)
      BY <2>3
    <3>2. posts'[1] = posts[1]
      BY <3>1 DEF EditThreadPartEnglish
    <3> QED BY <2>1, <2>3, <3>2, PicturesKept
  <2>4. CASE ~asked'
    BY <2>1, <2>4, PicturesKept
  <2> QED BY <2>1, <2>2, <2>3, <2>4 DEF Queued
<1>4. CASE TranslationAnswers
  <2>1. PICK ps : posts' = ps
    OBVIOUS
  <2>2. /\ \A l \in Locales : TextOf(ps[1], l) # 0
        /\ renderer' = renderer /\ cards' = RequeuedCards(cards, files, ps, wants, media)
    BY <1>4, <2>1, AnsweredThread
  <2>3. /\ CardsAreRight(cards')
        /\ renderer' # Asleep /\ cards'[renderer'.locale].status = "rendering" /\ renderer'.locale \in Locales =>
             renderer'.hash = cards'[renderer'.locale].hash
        /\ \A l \in Locales : cards'[l].status # "absent" =>
             \/ TextOf(ps[1], l) # 0 /\ cards'[l].hash = TextOf(ps[1], l)
             \/ TextOf(ps[1], l) = 0 /\ cards'[l] = cards[l]
    BY <1>1, <2>2, RequeuedAreRight
  <2> QED BY <1>1, <2>1, <2>2, <2>3 DEF CardsInv, CardsAreRight
<1>5. CASE CardRendered \/ CardFails
  <2>1. /\ posts' = posts /\ UNCHANGED <<asked, translation>> /\ renderer' = Asleep
        /\ renderer # Asleep /\ renderer \in Claimed /\ renderer.tries < MaxTries
        /\ (cards' = Drawn \/ cards' = NotDrawn)
    BY <1>5, RenderReplans DEF asking
  <2>2. PICK l \in Locales : l = renderer.locale
    BY <1>1, <2>1
  <2>3. CASE cards' = cards
    BY <2>1, <2>3, PicturesKept
  <2>4. ASSUME StillClaimed(l), NEW c \in Card, cards' = [cards EXCEPT ![l] = c], c.hash = cards[l].hash,
               c.status = "ready" => c.path = renderer.hash
        PROVE  CardsInv'
    <3>1. renderer.hash = cards[l].hash /\ cards[l].status # "absent"
      BY <2>1, <2>2, <2>4 DEF CardsInv, StillClaimed
    <3>2. \A k \in Locales : cards'[k] = IF k = l THEN c ELSE cards[k]
      BY <1>1, <2>4
    <3> QED BY <2>1, <2>4, <3>1, <3>2 DEF CardsInv
  <2>5. cards[l] \in Card /\ renderer.hash \in Editions /\ renderer.tries + 1 \in 0 .. MaxTries
    BY <1>1, <2>1, <2>2, DraftBoundsAssumption DEF Claimed
  <2>6. CASE StillClaimed(l) /\ cards' = Drawn
    <3>1. PICK c : c = [cards[l] EXCEPT !.status = "ready", !.path = renderer.hash]
      OBVIOUS
    <3>2. c \in Card /\ c.hash = cards[l].hash /\ c.path = renderer.hash
      BY <2>5, <3>1 DEF Card, CardStatus
    <3>3. cards' = [cards EXCEPT ![l] = c]
      BY <2>2, <2>6, <3>1 DEF Drawn
    <3> QED BY <2>4, <2>6, <3>2, <3>3
  <2>7. CASE StillClaimed(l) /\ cards' = NotDrawn
    <3>1. PICK st \in {"queued", "failed"} : st = IF Again(renderer.tries + 1) THEN "queued" ELSE "failed"
      OBVIOUS
    <3>2. PICK c : c = [cards[l] EXCEPT !.status = st, !.tries = renderer.tries + 1]
      OBVIOUS
    <3>3. c \in Card /\ c.hash = cards[l].hash /\ c.status # "ready"
      BY <2>5, <3>2 DEF Card, CardStatus
    <3>4. cards' = [cards EXCEPT ![l] = c]
      BY <2>2, <2>7, <3>1, <3>2 DEF NotDrawn
    <3> QED BY <2>4, <2>7, <3>3, <3>4
  <2> QED BY <2>1, <2>2, <2>3, <2>6, <2>7 DEF Drawn, NotDrawn
<1>6. ASSUME NEW l \in Locales, ClaimCard(l) \/ RecoverCard(l) PROVE CardsInv'
  <2>1. /\ posts' = posts /\ UNCHANGED <<asked, translation>> /\ cards[l].status \in {"queued", "rendering"}
        /\ \E st \in {"queued", "rendering"} : cards' = [cards EXCEPT ![l].status = st]
    BY <1>6 DEF ClaimCard, RecoverCard, writing, asking
  <2>2. \A k \in Locales : /\ cards'[k].hash = cards[k].hash /\ cards'[k].path = cards[k].path
          /\ (cards'[k].status # "absent" => cards[k].status # "absent")
          /\ (cards'[k].status = "ready" => cards[k].status = "ready")
          /\ (k # l => cards'[k] = cards[k])
    BY <1>1, <2>1 DEF Card
  <2>3. renderer' # Asleep /\ cards'[renderer'.locale].status = "rendering" =>
               renderer'.hash = cards'[renderer'.locale].hash
    <3>1. CASE ClaimCard(l)
      <4>1. renderer'.locale = l /\ renderer'.hash = cards[l].hash
        BY <3>1 DEF ClaimCard
      <4> QED BY <2>2, <4>1
    <3>2. CASE RecoverCard(l)
      <4>1. renderer' = renderer /\ cards' = [cards EXCEPT ![l].status = "queued"]
        BY <3>2 DEF RecoverCard, loops
      <4>2. cards'[l].status = "queued"
        BY <1>1, <4>1 DEF Card
      <4> QED BY <1>1, <2>2, <4>1, <4>2 DEF CardsInv
    <3> QED BY <1>6, <3>1, <3>2
  <2> QED BY <2>1, <2>2, <2>3 DEF CardsInv
<1>7. CASE CancelPost
  <2>1. cards' = [l \in Locales |-> NoCard] /\ renderer' = renderer
    BY <1>7 DEF CancelPost, loops
  <2>2. \A l \in Locales : cards'[l].status = "absent"
    BY <2>1 DEF NoCard
  <2> QED BY <1>1, <2>1, <2>2 DEF CardsInv
<1>8. CASE Choosing \/ Deliver \/ Restart \/ ClaimTranslation \/ TranslationFails
           \/ \E m \in {"all", "site_only"} : SetStoryPublishMode(m)
  <2>1. posts' = posts /\ cards' = cards /\ asked' = asked /\ renderer' \in {renderer, Asleep}
    BY <1>8, ChoiceReplans, ModeReplans
       DEF loops, Deliver, Restart, ClaimTranslation, TranslationFails, writing, asking, rendering
  <2>2. translation'.status = "absent" => translation.status = "absent"
    <3>1. CASE ClaimTranslation \/ TranslationFails
      BY <3>1 DEF ClaimTranslation, TranslationFails, TypeInv, DraftTypeOK, Translation
    <3>2. CASE ~(ClaimTranslation \/ TranslationFails)
      BY <1>8, <3>2, ChoiceReplans, ModeReplans DEF Deliver, Restart
    <3> QED BY <3>1, <3>2
  <2> QED BY <2>1, <2>2, PicturesKept
<1> QED BY <1>2, <1>3, <1>4, <1>5, <1>6, <1>7, <1>8 DEF DraftNext, Author, Translating, Drawing, Threading,
           Choosing

-----------------------------------------------------------------------------
(* Stories *)

CardWork == CardRendered \/ CardFails \/ \E l \in Locales : ClaimCard(l) \/ RecoverCard(l)
\* The card loop turns one card that is waiting or being drawn, and takes no file away.
LEMMA CardTurned ==
  ASSUME TypeInv, CardWork
  PROVE  /\ UNCHANGED <<status, posts, media, wants, mode, translation, translator>> /\ files \subseteq files'
         /\ \/ cards' = cards
            \/ \E l \in Locales, c \in Card :
                 /\ cards' = [cards EXCEPT ![l] = c] /\ cards[l].status \in {"queued", "rendering"}
                 /\ c.status # "absent"
                 /\ c.status = "ready" => CardRendered /\ <<l, c.path>> \in files'
                 /\ c.status = "failed" => ~CardRendered /\ CardFails /\ ~Again(renderer.tries + 1)
<1>1. cards \in [Locales -> Card]
  BY DEF TypeInv, DraftTypeOK
<1>2. CASE CardRendered \/ CardFails
  <2>1. /\ UNCHANGED <<status, posts, media, wants, mode, translation, translator>>
        /\ renderer \in Claimed /\ renderer.tries < MaxTries
        /\ CardRendered => cards' = Drawn /\ files' = files \cup {<<renderer.locale, renderer.hash>>}
        /\ ~CardRendered => cards' = NotDrawn /\ files' = files
    BY <1>2, RenderReplans
  <2>2. PICK l \in Locales : l = renderer.locale
    BY <2>1 DEF Claimed
  <2>3. cards[l] \in Card /\ renderer.hash \in Editions /\ renderer.tries + 1 \in 0 .. MaxTries
    BY <1>1, <2>1, <2>2, DraftBoundsAssumption DEF Claimed
  <2>4. CASE CardRendered /\ StillClaimed(l)
    <3>1. PICK c : c = [cards[l] EXCEPT !.status = "ready", !.path = renderer.hash]
      OBVIOUS
    <3>2. c \in Card /\ c.status = "ready" /\ c.path = renderer.hash
      BY <2>3, <3>1 DEF Card, CardStatus
    <3>3. cards' = [cards EXCEPT ![l] = c]
      BY <2>1, <2>2, <2>4, <3>1 DEF Drawn
    <3> QED BY <2>1, <2>2, <2>4, <3>2, <3>3 DEF StillClaimed
  <2>5. CASE ~CardRendered /\ StillClaimed(l)
    <3>1. PICK st \in {"queued", "failed"} : st = IF Again(renderer.tries + 1) THEN "queued" ELSE "failed"
      OBVIOUS
    <3>2. PICK c : c = [cards[l] EXCEPT !.status = st, !.tries = renderer.tries + 1]
      OBVIOUS
    <3>3. c \in Card /\ c.status = st
      BY <2>3, <3>2 DEF Card, CardStatus
    <3>4. cards' = [cards EXCEPT ![l] = c]
      BY <2>1, <2>2, <2>5, <3>1, <3>2 DEF NotDrawn
    <3> QED BY <1>2, <2>1, <2>5, <3>1, <3>3, <3>4 DEF StillClaimed
  <2>6. ~StillClaimed(l) => cards' = cards
    BY <2>1, <2>2 DEF Drawn, NotDrawn
  <2> QED BY <2>1, <2>4, <2>5, <2>6
<1>3. ASSUME NEW l \in Locales, ClaimCard(l) \/ RecoverCard(l)
      PROVE  /\ UNCHANGED <<status, posts, media, wants, mode, translation, translator>> /\ files' = files
             /\ \E c \in Card : /\ cards' = [cards EXCEPT ![l] = c] /\ cards[l].status \in {"queued", "rendering"}
                                /\ c.status \in {"queued", "rendering"}
  <2>1. PICK st \in {"queued", "rendering"} : cards' = [cards EXCEPT ![l] = [cards[l] EXCEPT !.status = st]]
    BY <1>3 DEF ClaimCard, RecoverCard
  <2>2. PICK c : c = [cards[l] EXCEPT !.status = st]
    OBVIOUS
  <2>3. c \in Card /\ c.status = st
    BY <1>1, <2>2 DEF Card, CardStatus
  <2> QED BY <1>3, <2>1, <2>2, <2>3 DEF ClaimCard, RecoverCard, writing, loops
<1> QED BY <1>2, <1>3 DEF CardWork

\* What looking at the texts again makes of a deck.
LEMMA DeckRequeued ==
  ASSUME TypeInv, DeckInv, NEW ps, NEW md,
         GoodPosts(ps), posts' = ps, media' = md, status' = status, wants' = wants,
         cards' = RequeuedCards(cards, files, ps, wants, md), files' = files \ Dropped(cards, cards'),
         mode' = ModeAfter(mode, cards, files, ps, wants, md, status)
  PROVE  DeckInv'
<1>1. cards \in [Locales -> Card]
  BY DEF TypeInv, DraftTypeOK
<1>2. GoodCards(cards) /\ cards' \in [Locales -> Card]
  BY RequeuedAreGood DEF GoodCards, TypeInv, DraftTypeOK
<1> DEFINE fresh(l) == [status |-> "queued", hash |-> TextOf(ps[1], l), path |-> 0, tries |-> 0]
           none == NoCard
<1>3. \A l \in Locales : fresh(l).status = "queued" /\ none.status = "absent"
  BY DEF NoCard
<1>4. ASSUME NEW l \in Locales
      PROVE  IF md \/ ~CardUse(wants) THEN cards'[l] = none
             ELSE \/ cards'[l] = fresh(l)
                  \/ TextOf(ps[1], l) = 0 /\ cards'[l] = cards[l]
                  \/ cards'[l] = cards[l] /\ cards'[l].status = "ready" /\ <<l, cards'[l].path>> \in files
  BY DEF RequeuedCards, CardFor, NeedsDrawing
<1> HIDE DEF fresh, none
<1>5. Filed(cards', files')
  <2>1. \A l \in Locales : cards'[l].status = "ready" => cards'[l] = cards[l] /\ <<l, cards'[l].path>> \in files
    BY <1>3, <1>4 DEF DeckInv, Filed
  <2>2. PICK cs : cs = cards'
    OBVIOUS
  <2>3. Filed(cs, files \ Dropped(cards, cs))
    BY <1>1, <1>2, <2>1, <2>2, DroppedFiles
  <2> QED BY <2>2, <2>3
<1>6. md => mode' = "none" /\ \A l \in Locales : cards'[l].status = "absent"
  BY <1>3, <1>4 DEF ModeAfter
<1>7. TextOf(ps[1], "ru") # 0
  BY FirstPost DEF TextOf
<1>8. (\E l \in Locales : cards'[l].status # "absent") /\ TextOf(ps[1], "en") # 0 => Present(cards')
  BY <1>3, <1>4, <1>7 DEF Present, Locales
<1>9. mode' # "none" /\ Open' => Present(cards')
  <2>1. mode' # "none" /\ Open' => ~(md \/ ~CardUse(wants)) /\ Present(cards)
    BY DEF ModeAfter, DeckInv, Open
  <2> QED BY <1>3, <1>4, <2>1 DEF Present
<1> QED BY <1>5, <1>6, <1>8, <1>9 DEF DeckInv

LEMMA DeckKept ==
  ASSUME DeckInv, cards' = cards, files' = files, mode' = mode, media' = media,
         Open' => Open, TextOf(posts'[1], "en") # 0 => TextOf(posts[1], "en") # 0
  PROVE  DeckInv'
BY DEF DeckInv

LEMMA DeckStep ==
  ASSUME Steady, TypeInv, DeckInv, DraftNext
  PROVE  DeckInv'
<1>1. cards \in [Locales -> Card]
  BY DEF TypeInv, DraftTypeOK
<1>2. CASE EditMedia \/ \E l \in Locales : EditText(l)
  <2>1. PICK ps, md : GoodPosts(ps) /\ SavedAs(ps, md)
    BY <1>2, SaveEdits
  <2>2. PICK cs : cs = RequeuedCards(cards, files, ps, wants, md)
    OBVIOUS
  <2>3. CASE UNCHANGED <<posts, media, cards, mode, files>>
    BY <2>1, <2>3, DeckKept DEF SavedAs, Open
  <2>4. CASE /\ posts' = ps /\ media' = md /\ cards' = cs /\ files' = files \ Dropped(cards, cs)
             /\ mode' = ModeAfter(mode, cards, files, ps, wants, md, status)
    BY <2>1, <2>2, <2>4, DeckRequeued DEF SavedAs
  <2> QED BY <2>1, <2>2, <2>3, <2>4 DEF SavedAs, Steady
<1>3. CASE Threading
  BY <1>3, ThreadReplans, ThreadEdited, DeckKept DEF KeepsCards, Open, Threading
<1>4. CASE TranslationAnswers
  <2>1. PICK ps : ps = posts'
    OBVIOUS
  <2>2. PICK md : md = media
    OBVIOUS
  <2>3. /\ GoodPosts(ps) /\ posts' = ps /\ media' = md /\ status' = status /\ wants' = wants
        /\ cards' = RequeuedCards(cards, files, ps, wants, md) /\ files' = files \ Dropped(cards, cards')
        /\ mode' = ModeAfter(mode, cards, files, ps, wants, md, status)
    BY <1>4, <2>1, <2>2, AnsweredThread
  <2> QED BY <2>3, DeckRequeued
<1>5. CASE CardWork
  <2>1. UNCHANGED <<status, posts, media, wants, mode>> /\ files \subseteq files'
    BY <1>5, CardTurned
  <2>2. CASE cards' = cards
    BY <2>1, <2>2 DEF DeckInv, Filed, Open
  <2>3. ASSUME NEW l \in Locales, NEW c \in Card,
               cards' = [cards EXCEPT ![l] = c], cards[l].status \in {"queued", "rendering"},
               c.status # "absent", c.status = "ready" => <<l, c.path>> \in files'
        PROVE  DeckInv'
    <3>1. \A k \in Locales : cards'[k] = IF k = l THEN c ELSE cards[k]
      BY <1>1, <2>3
    <3>2. Filed(cards', files')
      BY <2>1, <2>3, <3>1 DEF DeckInv, Filed
    <3>3. ~media
      BY <2>3 DEF DeckInv
    <3>4. Present(cards) => Present(cards')
      BY <2>3, <3>1 DEF Present
    <3>5. \E k \in Locales : cards[k].status # "absent"
      BY <2>3
    <3> QED BY <2>1, <3>2, <3>3, <3>4, <3>5 DEF DeckInv, Open
  <2> QED BY <1>5, <2>2, <2>3, CardTurned
<1>6. CASE CancelPost
  <2>1. cards' = [l \in Locales |-> NoCard] /\ status' = "cancelled" /\ mode' = mode /\ media' = media
    BY <1>6 DEF CancelPost, writing
  <2>2. \A l \in Locales : cards'[l].status = "absent"
    BY <2>1 DEF NoCard
  <2> QED BY <2>1, <2>2 DEF DeckInv, Filed, Open
<1>7. ASSUME NEW m \in {"all", "site_only"}, SetStoryPublishMode(m) PROVE DeckInv'
  <2>1. /\ mode' = m /\ UNCHANGED <<status, posts, media, cards, files>>
        /\ \E l \in Locales : cards[l].status = "ready"
        /\ TextOf(posts[1], "en") # 0
    BY <1>7, ModeReplans DEF Steady
  <2> QED BY <2>1 DEF DeckInv, Open
<1>8. CASE Choosing \/ Deliver \/ Restart \/ ClaimTranslation \/ TranslationFails
  <2>1. UNCHANGED <<posts, media, cards, files, mode>> /\ (Open' => Open)
    BY <1>8, ChoiceReplans DEF Open, Deliver, Restart, ClaimTranslation, TranslationFails, writing, rendering
  <2> QED BY <2>1, DeckKept
<1> QED BY <1>2, <1>3, <1>4, <1>5, <1>6, <1>7, <1>8
        DEF DraftNext, Author, Translating, Drawing, Threading, Choosing, CardWork

\* A plan made now, refused, or not asked for, is right by what was read for it.
LEMMA StoryPlanned ==
  ASSUME Planned
  PROVE  StoryInv'
<1>1. PICK p : plan' = p
  OBVIOUS
<1>2. plan'.story = IF "story" \in wants' /\ ReadyCards(cards', files') /\ mode' = "all"
                      THEN PicturesOf(cards') ELSE {}
  BY DEF Planned, PlanOf, PicturesOf
<1>3. plan'.story # {} => "story" \in wants' /\ ReadyCards(cards', files') /\ mode' = "all" /\ plan'.story = PicturesOf(cards')
  BY <1>2
<1>4. ReadyCards(cards', files') => \A l \in Locales : cards'[l].status = "ready"
  BY DEF ReadyCards
<1> QED BY <1>3, <1>4 DEF StoryInv

LEMMA StoryReplanned ==
  ASSUME DeckInv', StoryInv, Replans, cards' \in [Locales -> Card],
         Refused => status' = status /\ wants' = wants,
         Postponed => status' = status /\ mode' \in {mode, "none"}
  PROVE  StoryInv'
<1>1. CASE Planned
  BY <1>1, StoryPlanned
<1>2. CASE Refused
  BY <1>2 DEF Refused, StoryInv
<1>3. CASE NotYet
  BY <1>3 DEF NotYet, StoryInv
<1>4. CASE Postponed
  <2>1. /\ plan' = plan /\ behind' = behind /\ status' = status /\ mode' = mode
        /\ mode' # "none" /\ "story" \in wants' /\ \A l \in Locales : cards'[l].status # "failed"
        /\ ~ReadyCards(cards', files')
    BY <1>4 DEF Postponed, Awaited, WaitsForCards
  <2>2. ASSUME status' = "scheduled", behind' \in {"no", "english"}, plan'.story # {}
        PROVE  mode' = "all" /\ \A l \in Locales : cards'[l].status \in {"queued", "rendering", "ready"}
    <3>1. mode' = "all"
      BY <2>1, <2>2 DEF StoryInv
    <3>2. Present(cards')
      BY <2>1, <2>2 DEF DeckInv, Open
    <3> QED BY <2>1, <3>1, <3>2 DEF Present, Card, CardStatus
  <2> QED BY <2>1, <2>2 DEF StoryInv
<1> QED BY <1>1, <1>2, <1>3, <1>4 DEF Replans

LEMMA StoryStep ==
  ASSUME Steady, TypeInv, DeckInv, StoryInv, DraftNext
  PROVE  StoryInv'
<1>1. cards \in [Locales -> Card] /\ DeckInv' /\ cards' \in [Locales -> Card]
  BY DeckStep, CardsStep DEF TypeInv, DraftTypeOK, GoodCards
<1>2. CASE EditMedia \/ \E l \in Locales : EditText(l)
  <2>1. PICK ps, md : SavedAs(ps, md)
    BY <1>2, SaveEdits
  <2>2. status' = status /\ wants' = wants
    BY <2>1 DEF SavedAs
  <2>3. CASE UNCHANGED <<cards, mode, plan, behind, files>>
    BY <2>2, <2>3 DEF StoryInv
  <2>4. CASE Replans /\ mode' \in {mode, "none"}
    BY <1>1, <2>2, <2>4, StoryReplanned
  <2>5. \A cs : ModeAfter(mode, cards, files, ps, wants, md, status) \in {mode, "none"}
    BY DEF ModeAfter
  <2> QED BY <2>1, <2>3, <2>4, <2>5 DEF SavedAs, Steady
<1>3. CASE Threading
  BY <1>1, <1>3, ThreadReplans, StoryReplanned DEF KeepsCards
<1>4. CASE TranslationAnswers
  <2>1. PICK ps : ps = posts'
    OBVIOUS
  <2>2. /\ \A l \in Locales : TextOf(ps[1], l) # 0
        /\ cards' = RequeuedCards(cards, files, ps, wants, media) /\ files' = files \ Dropped(cards, cards')
        /\ mode' = ModeAfter(mode, cards, files, ps, wants, media, status)
        /\ UNCHANGED <<status, wants, plan, behind>>
    BY <1>4, <2>1, AnsweredThread
  <2>3. ASSUME status = "scheduled", behind \in {"no", "english"}, plan.story # {}
        PROVE  /\ mode' = "all" /\ \A l \in Locales : cards'[l].status \in {"queued", "rendering", "ready"}
               /\ ReadyCards(cards', files') => plan.story = PicturesOf(cards')
    <3>1. /\ "story" \in wants /\ mode = "all"
          /\ ReadyCards(cards, files) => plan.story = PicturesOf(cards)
      BY <2>3 DEF StoryInv
    <3>2. ~media
      BY <3>1 DEF DeckInv
    <3>3. mode' = "all"
      BY <2>2, <2>3, <3>1, <3>2 DEF ModeAfter, CardUse
    <3> DEFINE fresh(l) == [status |-> "queued", hash |-> TextOf(ps[1], l), path |-> 0, tries |-> 0]
    <3>4. \A l \in Locales : fresh(l).status = "queued"
      OBVIOUS
    <3>5. \A l \in Locales : cards'[l] = fresh(l)
             \/ (cards'[l] = cards[l] /\ cards'[l].status = "ready" /\ <<l, cards'[l].path>> \in files)
      BY <2>2, <3>1, <3>2 DEF RequeuedCards, CardFor, NeedsDrawing, CardUse
    <3> HIDE DEF fresh
    <3>6. \A l \in Locales : cards'[l].status \in {"queued", "ready"}
      BY <3>4, <3>5
    <3>7. ASSUME ReadyCards(cards', files') PROVE plan.story = PicturesOf(cards')
      <4>1. \A l \in Locales : cards'[l] = cards[l] /\ cards[l].status = "ready" /\ <<l, cards[l].path>> \in files
        BY <3>4, <3>5, <3>7 DEF ReadyCards
      <4>2. ReadyCards(cards, files) /\ PicturesOf(cards') = PicturesOf(cards)
        BY <4>1 DEF ReadyCards, PicturesOf
      <4> QED BY <3>1, <4>2
    <3> QED BY <3>3, <3>6, <3>7
  <2> QED BY <2>2, <2>3 DEF StoryInv
<1>5. CASE CardWork
  <2>1. CASE Planned
    BY <2>1, StoryPlanned
  <2>2. UNCHANGED <<status, wants, mode>> /\ files \subseteq files'
    BY <1>5, CardTurned
  <2>3. CASE Refused
    BY <2>2, <2>3 DEF Refused, StoryInv
  <2>4. CASE /\ plan' = plan /\ behind' = behind
             /\ CardRendered => ~ReplansAfterCards(cards', files')
             /\ CardFails /\ ~CardRendered => Again(renderer.tries + 1) \/ ~ReplansAfterFailure(cards')
             /\ ~CardRendered => files' = files
    <3>1. ASSUME status = "scheduled", behind \in {"no", "english"}, plan.story # {}
          PROVE  /\ \A l \in Locales : cards'[l].status \in {"queued", "rendering", "ready"}
                 /\ ReadyCards(cards', files') => plan.story = PicturesOf(cards')
      <4>1. /\ "story" \in wants /\ mode = "all"
            /\ \A l \in Locales : cards[l].status \in {"queued", "rendering", "ready"}
            /\ ReadyCards(cards, files) => plan.story = PicturesOf(cards)
        BY <3>1 DEF StoryInv
      <4>2. CardRendered => ~ReadyCards(cards', files')
        BY <2>2, <2>4, <3>1, <4>1 DEF ReplansAfterCards
      <4>3. CASE cards' = cards
        BY <2>4, <4>1, <4>2, <4>3
      <4>4. ASSUME NEW l \in Locales, NEW c \in Card,
               cards' = [cards EXCEPT ![l] = c], c.status # "absent",
               c.status = "ready" => CardRendered /\ <<l, c.path>> \in files',
               c.status = "failed" => ~CardRendered /\ CardFails /\ ~Again(renderer.tries + 1)
            PROVE  /\ \A k \in Locales : cards'[k].status \in {"queued", "rendering", "ready"}
                   /\ ReadyCards(cards', files') => plan.story = PicturesOf(cards')
        <5>1. \A k \in Locales : cards'[k] = IF k = l THEN c ELSE cards[k]
          BY <1>1, <4>4
        <5>2. c.status # "failed"
          BY <2>2, <2>4, <3>1, <4>1, <4>4, <5>1 DEF ReplansAfterFailure
        <5>3. c.status \in {"queued", "rendering", "ready"}
          BY <4>4, <5>2 DEF Card, CardStatus
        <5>4. ~ReadyCards(cards', files')
          BY <4>2, <4>4, <5>1 DEF ReadyCards
        <5> QED BY <4>1, <5>1, <5>3, <5>4
      <4> QED BY <1>5, <4>3, <4>4, CardTurned
    <3> QED BY <2>2, <2>4, <3>1 DEF StoryInv
  <2>5. CASE CardRendered \/ CardFails
    BY <2>1, <2>3, <2>4, <2>5, RenderReplans
  <2>6. CASE ~(CardRendered \/ CardFails)
    <3>1. plan' = plan /\ behind' = behind /\ files' = files
      BY <1>5, <2>6 DEF CardWork, ClaimCard, RecoverCard
    <3> QED BY <2>4, <2>6, <3>1
  <2> QED BY <2>5, <2>6
<1>6. CASE CancelPost \/ Deliver
  BY <1>6 DEF CancelPost, Deliver, StoryInv
<1>7. ASSUME NEW m \in {"all", "site_only"}, SetStoryPublishMode(m) PROVE StoryInv'
  <2>1. /\ Replans /\ Open /\ mode' = m /\ UNCHANGED <<status, wants, cards, files>>
        /\ \A l \in Locales : cards[l].status \in {"absent", "ready"}
    BY <1>7, ModeReplans
  <2>2. ~Awaited'
    <3>1. Present(cards)
      BY <1>1, <2>1 DEF DeckInv, Open
    <3>2. ReadyCards(cards, files)
      BY <2>1, <3>1 DEF DeckInv, Filed, ReadyCards, Present
    <3> QED BY <2>1, <3>2 DEF Awaited, WaitsForCards
  <2>3. ~Postponed
    BY <2>2 DEF Postponed
  <2> QED BY <1>1, <2>1, <2>3, StoryReplanned
<1>8. CASE Choosing
  <2>1. /\ (Planned \/ Postponed \/ NotYet) /\ mode' = mode /\ cards' = cards /\ files' = files
    BY <1>8, ChoiceReplans
  <2>2. ~Planned => status' = status
    BY <1>8 DEF Choosing, Schedule, ToggleTarget, Replan, Planned, rendering
  <2>3. CASE Planned
    BY <2>3, StoryPlanned
  <2>4. CASE ~Planned
    <3>1. Postponed \/ NotYet
      BY <2>1, <2>4
    <3>2. CASE NotYet
      BY <3>2 DEF NotYet, StoryInv
    <3>3. CASE Postponed
      <4>1. "story" \in wants'
        BY <3>3 DEF Postponed, Awaited, WaitsForCards
      <4> QED BY <2>1, <2>2, <2>4, <3>3, <4>1 DEF Postponed, StoryInv
    <3> QED BY <3>1, <3>2, <3>3
  <2> QED BY <2>3, <2>4
<1>9. CASE Restart \/ ClaimTranslation \/ TranslationFails
  BY <1>9 DEF Restart, ClaimTranslation, TranslationFails, writing, rendering, StoryInv
<1> QED BY <1>2, <1>3, <1>4, <1>5, <1>6, <1>7, <1>8, <1>9
        DEF DraftNext, Author, Translating, Drawing, Threading, Choosing, CardWork

-----------------------------------------------------------------------------
(* Plans *)

LEMMA PlanReplanned ==
  ASSUME Replans
  PROVE  PlanInv'
<1>1. CASE Planned
  BY <1>1 DEF Planned, PlanInv
<1>2. CASE Refused
  BY <1>2 DEF Refused, PlanInv
<1>3. CASE Postponed
  BY <1>3 DEF Postponed, PlanInv
<1>4. CASE NotYet
  BY <1>4 DEF NotYet, PlanInv
<1> QED BY <1>1, <1>2, <1>3, <1>4 DEF Replans

\* A plan has a Story for the cards that are there, or for nobody.
LEMMA SamePlan ==
  ASSUME NEW ps, NEW qs, ThreadIn(qs, "ru") = ThreadIn(ps, "ru"), NEW ws, NEW m, NEW cs, NEW ds, NEW fs,
         NEW gs,
         "en" \in ws => ThreadIn(qs, "en") = ThreadIn(ps, "en"),
         \/ "story" \notin ws \/ m # "all"
         \/ ~ReadyCards(cs, fs) /\ ~ReadyCards(ds, gs)
         \/ ReadyCards(cs, fs) /\ ReadyCards(ds, gs) /\ PicturesOf(ds) = PicturesOf(cs)
  PROVE  PlanOf(qs, ws, m, ds, gs) = PlanOf(ps, ws, m, cs, fs)
<1> DEFINE stories(ks, hs) == IF "story" \in ws /\ ReadyCards(ks, hs) /\ m = "all" THEN PicturesOf(ks) ELSE {}
           english(xs) == IF "en" \in ws THEN ThreadIn(xs, "en") ELSE <<>>
<1>1. \A xs, ks, hs : PlanOf(xs, ws, m, ks, hs) =
        [ru |-> ThreadIn(xs, "ru"), en |-> english(xs), story |-> stories(ks, hs)]
  BY DEF PlanOf, PicturesOf
<1>2. stories(ds, gs) = stories(cs, fs)
  OBVIOUS
<1>3. english(qs) = english(ps)
  OBVIOUS
<1> HIDE DEF stories, english
<1> QED BY <1>1, <1>2, <1>3

LEMMA PlanKept ==
  ASSUME PlanInv, UNCHANGED <<status, behind, plan, posts, wants, media, mode, cards, files>>,
         status = "scheduled" /\ behind = "no" /\ "en" \in wants /\ translation'.status \in Coming => translation.status \in Coming
  PROVE  PlanInv'
BY DEF PlanInv, Awaited

LEMMA PlansStep ==
  ASSUME Steady, TypeInv, EnglishInv, DeckInv, StoryInv, PlanInv, DraftNext
  PROVE  PlanInv'
<1>1. cards \in [Locales -> Card] /\ cards' \in [Locales -> Card]
  BY CardsStep DEF TypeInv, DraftTypeOK, GoodCards
<1>2. CASE EditMedia \/ \E l \in Locales : EditText(l)
  <2>1. PICK ps, md : SavedAs(ps, md)
    BY <1>2, SaveEdits
  <2>2. CASE Replans
    BY <2>2, PlanReplanned
  <2>3. CASE UNCHANGED <<status, behind, plan, posts, wants, media, mode, cards, files, translation>>
    BY <2>3, PlanKept
  <2> QED BY <2>1, <2>2, <2>3 DEF SavedAs, Steady
<1>3. CASE Threading \/ Choosing \/ \E m \in {"all", "site_only"} : SetStoryPublishMode(m)
  BY <1>3, ThreadReplans, ChoiceReplans, ModeReplans, PlanReplanned DEF Replans
<1>4. CASE TranslationAnswers
  <2>1. PICK ps : ps = posts'
    OBVIOUS
  <2>2. /\ \A l \in Locales : TextOf(ps[1], l) # 0
        /\ cards' = RequeuedCards(cards, files, ps, wants, media) /\ files' = files \ Dropped(cards, cards')
        /\ mode' = ModeAfter(mode, cards, files, ps, wants, media, status)
        /\ UNCHANGED <<status, media, wants, plan, behind>>
        /\ ThreadIn(posts', "ru") = ThreadIn(posts, "ru") /\ translator # Asleep
    BY <1>4, <2>1, AnsweredThread
  <2>3. translation.status \in Coming
    BY <2>2 DEF EnglishInv
  <2>4. ASSUME status = "scheduled", behind = "no"
        PROVE  Awaited' \/ (plan = PlanOf(posts', wants, mode', cards', files') /\ "en" \notin wants)
    <3>1. Awaited \/ (plan = PlanOf(posts, wants, mode, cards, files) /\ "en" \notin wants)
      BY <2>3, <2>4 DEF PlanInv
    <3>2. CASE "story" \notin wants \/ media \/ mode = "none"
      <4>1. ~Awaited
        BY <3>2 DEF Awaited, WaitsForCards
      <4>2. "story" \notin wants \/ (mode = "none" /\ mode' = "none")
        BY <2>2, <3>2 DEF DeckInv, ModeAfter
      <4>3. \A m : "story" \notin wants \/ m # "all" =>
              PlanOf(posts', wants, m, cards', files') = PlanOf(posts, wants, m, cards, files)
        BY <2>2, <3>1, <4>1, SamePlan
      <4>4. \A m : "story" \notin wants => PlanOf(posts, wants, m, cards, files) = PlanOf(posts, wants, mode, cards, files)
        BY DEF PlanOf
      <4> QED BY <3>1, <4>1, <4>2, <4>3, <4>4
    <3>3. CASE "story" \in wants /\ ~media /\ mode # "none"
      <4> DEFINE fresh(l) == [status |-> "queued", hash |-> TextOf(ps[1], l), path |-> 0, tries |-> 0]
      <4>1. \A l \in Locales : fresh(l).status = "queued"
        OBVIOUS
      <4>2. \A l \in Locales : cards'[l] = fresh(l)
               \/ (cards'[l] = cards[l] /\ cards'[l].status = "ready" /\ <<l, cards'[l].path>> \in files)
        BY <2>2, <3>3 DEF RequeuedCards, CardFor, NeedsDrawing, CardUse
      <4> HIDE DEF fresh
      <4>3. mode' = mode
        BY <2>2, <2>4, <3>3 DEF ModeAfter, CardUse
      <4>4. CASE ~ReadyCards(cards', files')
        BY <2>2, <3>3, <4>1, <4>2, <4>3, <4>4 DEF Awaited, WaitsForCards
      <4>5. CASE ReadyCards(cards', files')
        <5>1. \A l \in Locales : cards'[l] = cards[l] /\ cards[l].status = "ready" /\ <<l, cards[l].path>> \in files
          BY <4>1, <4>2, <4>5 DEF ReadyCards
        <5>2. ReadyCards(cards, files) /\ PicturesOf(cards') = PicturesOf(cards)
          BY <5>1 DEF ReadyCards, PicturesOf
        <5>3. ~Awaited
          BY <5>2 DEF Awaited, WaitsForCards
        <5>4. PlanOf(posts', wants, mode, cards', files') = PlanOf(posts, wants, mode, cards, files)
          BY <2>2, <3>1, <4>5, <5>2, <5>3, SamePlan
        <5> QED BY <3>1, <4>3, <5>3, <5>4
      <4> QED BY <4>4, <4>5
    <3> QED BY <3>2, <3>3
  <2> QED BY <2>2, <2>4 DEF PlanInv
<1>5. CASE CardWork
  <2>1. UNCHANGED <<status, posts, media, wants, mode, translation>> /\ files \subseteq files'
    BY <1>5, CardTurned
  <2>2. CASE Planned \/ Refused
    BY <2>2, PlanReplanned DEF Replans
  <2>3. CASE /\ plan' = plan /\ behind' = behind
             /\ CardRendered => ~ReplansAfterCards(cards', files')
             /\ CardFails /\ ~CardRendered => Again(renderer.tries + 1) \/ ~ReplansAfterFailure(cards')
             /\ ~CardRendered => files' = files
    <3>1. ASSUME status = "scheduled", behind = "no"
          PROVE  Awaited' \/ /\ plan = PlanOf(posts, wants, mode, cards', files')
                             /\ "en" \in wants => translation.status \notin Coming
      <4>1. Awaited \/ /\ plan = PlanOf(posts, wants, mode, cards, files)
                       /\ "en" \in wants => translation.status \notin Coming
        BY <3>1 DEF PlanInv
      <4>2. CASE "story" \notin wants \/ media \/ mode = "none"
        <5>1. ~Awaited /\ ("story" \notin wants \/ mode # "all")
          BY <4>2 DEF Awaited, WaitsForCards, DeckInv
        <5>2. PlanOf(posts, wants, mode, cards', files') = PlanOf(posts, wants, mode, cards, files)
          BY <5>1, SamePlan
        <5> QED BY <4>1, <5>1, <5>2
      <4>3. CASE "story" \in wants /\ ~media /\ mode # "none"
        <5>1. CardRendered => ~ReadyCards(cards', files')
          BY <2>1, <2>3, <3>1, <4>3 DEF ReplansAfterCards
        <5>2. ASSUME ~ReadyCards(cards', files'), ~ReadyCards(cards, files),
                     (\A l \in Locales : cards[l].status # "failed") => \A l \in Locales : cards'[l].status # "failed"
              PROVE  Awaited' \/ /\ plan = PlanOf(posts, wants, mode, cards', files')
                                 /\ "en" \in wants => translation.status \notin Coming
          <6>1. Awaited => Awaited'
            BY <2>1, <5>2 DEF Awaited, WaitsForCards
          <6>2. PlanOf(posts, wants, mode, cards', files') = PlanOf(posts, wants, mode, cards, files)
            BY <5>2, SamePlan
          <6> QED BY <4>1, <6>1, <6>2
        <5>3. CASE cards' = cards
          <6>1. CASE CardRendered
            <7>1. ~ReadyCards(cards, files)
              BY <2>1, <5>1, <5>3, <6>1 DEF ReadyCards
            <7> QED BY <5>1, <5>2, <5>3, <6>1, <7>1
          <6>2. CASE ~CardRendered
            BY <2>1, <2>3, <4>1, <5>3, <6>2 DEF Awaited
          <6> QED BY <6>1, <6>2
        <5>4. ASSUME NEW l \in Locales, NEW c \in Card,
                 cards' = [cards EXCEPT ![l] = c], cards[l].status \in {"queued", "rendering"},
                 c.status # "absent",
                 c.status = "ready" => CardRendered /\ <<l, c.path>> \in files',
                 c.status = "failed" => ~CardRendered /\ CardFails /\ ~Again(renderer.tries + 1)
              PROVE  Awaited' \/ /\ plan = PlanOf(posts, wants, mode, cards', files')
                                 /\ "en" \in wants => translation.status \notin Coming
          <6>1. \A k \in Locales : cards'[k] = IF k = l THEN c ELSE cards[k]
            BY <1>1, <5>4
          <6>2. c.status # "failed"
            BY <2>1, <2>3, <3>1, <4>3, <5>4, <6>1 DEF ReplansAfterFailure
          <6>3. ~ReadyCards(cards, files)
            BY <5>4 DEF ReadyCards
          <6>4. ~ReadyCards(cards', files')
            BY <5>1, <5>4, <6>1 DEF ReadyCards
          <6> QED BY <5>2, <6>1, <6>2, <6>3, <6>4
        <5> QED BY <1>5, <5>3, <5>4, CardTurned
      <4> QED BY <4>2, <4>3
    <3> QED BY <2>1, <2>3, <3>1 DEF PlanInv
  <2>4. CASE CardRendered \/ CardFails
    BY <2>2, <2>3, <2>4, RenderReplans
  <2>5. CASE ~(CardRendered \/ CardFails)
    <3>1. plan' = plan /\ behind' = behind /\ files' = files
      BY <1>5, <2>5 DEF CardWork, ClaimCard, RecoverCard
    <3> QED BY <2>3, <2>5, <3>1
  <2> QED BY <2>4, <2>5
<1>6. CASE CancelPost \/ Deliver
  BY <1>6 DEF CancelPost, Deliver, PlanInv
<1>7. CASE Restart \/ ClaimTranslation \/ TranslationFails
  <2>1. UNCHANGED <<status, behind, plan, posts, wants, media, mode, cards, files>>
    BY <1>7 DEF Restart, ClaimTranslation, TranslationFails, writing, rendering
  <2>2. translation'.status \in Coming => translation.status \in Coming
    BY <1>7 DEF Restart, ClaimTranslation, TranslationFails, EnglishInv
  <2> QED BY <2>1, <2>2, PlanKept
<1> QED BY <1>2, <1>3, <1>4, <1>5, <1>6, <1>7
        DEF DraftNext, Author, Translating, Drawing, Threading, Choosing, CardWork

-----------------------------------------------------------------------------
(* The theorems *)

LEMMA DraftStarts == DraftInit => TypeInv /\ EnglishInv /\ CardsInv /\ DeckInv /\ StoryInv /\ PlanInv
<1> SUFFICES ASSUME DraftInit PROVE EnglishInv /\ CardsInv /\ DeckInv /\ StoryInv /\ PlanInv
  BY TypeStarts
<1>1. /\ status = "needs_review" /\ media = FALSE /\ mode = "none"
      /\ translator = Asleep /\ renderer = Asleep /\ Len(posts) = 1
      /\ \A l \in Locales : cards[l].status \in {"absent", "queued"}
      /\ \A l \in Locales : cards[l].status # "absent" => l = "ru" /\ cards[l].hash = 1
  BY DEF DraftInit, NoCard
<1>2. TextOf(posts[1], "en") = 0 /\ TextOf(posts[1], "ru") = 1
  BY DEF DraftInit, TextOf
<1>3. EnglishInv
  BY <1>1 DEF EnglishInv, EnglishOfThisPost, ThreadIsTranslated
<1>4. CardsInv
  BY <1>1, <1>2 DEF CardsInv
<1>5. DeckInv
  BY <1>1, <1>2 DEF DeckInv, Filed
<1> QED BY <1>1, <1>3, <1>4, <1>5 DEF StoryInv, PlanInv

LEMMA DraftStutters ==
  ASSUME UNCHANGED draftVars
  PROVE  /\ EnglishInv => EnglishInv'
         /\ CardsInv => CardsInv'
         /\ DeckInv => DeckInv'
         /\ StoryInv => StoryInv'
         /\ PlanInv => PlanInv'
<1>1. UNCHANGED <<status, posts, media, wants, asked, mode, translation, cards, files, plan, translator, renderer, behind>>
  BY DEF draftVars, writing, asking, rendering, loops
<1>2. EnglishInv => EnglishInv'
  BY <1>1 DEF EnglishInv, EnglishOfThisPost, ThreadIsTranslated
<1>3. CardsInv => CardsInv'
  BY <1>1 DEF CardsInv
<1>4. DeckInv => DeckInv'
  BY <1>1 DEF DeckInv, Open
<1>5. StoryInv => StoryInv'
  BY <1>1 DEF StoryInv
<1>6. PlanInv => PlanInv'
  BY <1>1 DEF PlanInv, Awaited
<1> QED BY <1>2, <1>3, <1>4, <1>5, <1>6

\* A post is what the model says it is: no edition, card, attempt or plan out of its
\* range, however the author and the two loops interleave.
THEOREM DraftTypes == DraftSpec => []DraftTypeOK
<1>1. TypeInv => DraftTypeOK
  BY DEF TypeInv
<1> QED BY <1>1, TypeStarts, TypeStep, PTL DEF DraftSpec

\* Machine English that nobody is waiting for any more was made from the Russian the
\* post has now, once the last change of the thread asked for it: threadChanged then
\* asks again whenever a position changes hands, and an answer settles only the
\* request it was given (runTranslationCycle).
THEOREM EnglishFollowsThePost == DraftSpec => []EnglishOfThisPost
<1> DEFINE I == TypeInv /\ EnglishInv
<1>1. I /\ [DraftNext]_draftVars => I'
  BY TypeStep, EnglishStep, DraftStutters
<1>2. DraftInit => I
  BY DraftStarts
<1>3. I => EnglishOfThisPost
  BY DEF EnglishInv
<1> QED BY <1>1, <1>2, <1>3, PTL DEF DraftSpec

\* A ready card shows the text of the post, unless its thread was last changed without
\* asking for English: a render that comes late finds another row than the one it
\* claimed (queueDraftStoryCards, the fence of runStoryCardCycle).
THEOREM CardsFollowTheText == DraftSpec => []CardShowsText
<1> DEFINE I == TypeInv /\ CardsInv
<1>1. I /\ [DraftNext]_draftVars => I'
  BY TypeStep, PicturesStep, DraftStutters
<1>2. DraftInit => I
  BY DraftStarts
<1>3. CardsInv => CardShowsText
  BY DEF CardsInv, CardShowsText
<1> QED BY <1>1, <1>2, <1>3, PTL DEF DraftSpec

DraftInv == TypeInv /\ EnglishInv /\ DeckInv /\ StoryInv /\ PlanInv

LEMMA DraftStep ==
  ASSUME Steady
  PROVE  DraftInv /\ [DraftNext]_draftVars => DraftInv'
BY TypeStep, EnglishStep, DeckStep, StoryStep, PlansStep, DraftStutters DEF DraftInv

LEMMA NobodyWaitsForNothing == TypeInv /\ DeckInv => WaitingHasACard
<1> SUFFICES ASSUME TypeInv, DeckInv, status = "scheduled", Awaited, ~CardsBusy PROVE FALSE
  BY DEF WaitingHasACard, Awaited
<1>1. Present(cards) /\ \A l \in Locales : cards[l].status # "failed"
  BY DEF Awaited, WaitsForCards, DeckInv, Open
<1>2. \A l \in Locales : cards[l].status = "ready"
  BY <1>1 DEF Present, CardsBusy, TypeInv, DraftTypeOK, Card, CardStatus
<1>3. ReadyCards(cards, files)
  BY <1>2 DEF DeckInv, Filed, ReadyCards
<1> QED BY <1>3 DEF Awaited, WaitsForCards

LEMMA StoriesAreOnDisk == DeckInv /\ StoryInv => StoryHasItsFile
<1> SUFFICES ASSUME DeckInv, StoryInv, status = "scheduled", ~CardsBusy, behind \in {"no", "english"},
                    plan.story # {}
             PROVE  plan.story \subseteq files
  BY DEF StoryHasItsFile
<1>1. \A l \in Locales : cards[l].status = "ready"
  BY DEF StoryInv, CardsBusy
<1>2. \A l \in Locales : <<l, cards[l].path>> \in files
  BY <1>1 DEF DeckInv, Filed
<1>3. plan.story = PicturesOf(cards)
  BY <1>1, <1>2 DEF StoryInv, ReadyCards
<1> QED BY <1>2, <1>3 DEF PicturesOf

\* However cards fail, are replaced or arrive late, a post held back for its cards has
\* one that will ask for its plan again, and a Story that is planned has its picture:
\* what replanScheduledPostAfterMutation puts off, the card loop takes up.
THEOREM StoriesAreAlwaysServed ==
  ASSUME Steady
  PROVE  DraftSpec => []StoriesAreServed
<1>1. DraftInit => DraftInv
  BY DraftStarts DEF DraftInv
<1>2. DraftInv => StoriesAreServed
  BY NobodyWaitsForNothing, StoriesAreOnDisk DEF DraftInv, StoriesAreServed
<1> QED BY <1>1, <1>2, DraftStep, PTL DEF DraftSpec

\* What goes out is what the author last saved: whichever of an edit, an answer of the
\* translator and a card came last, the jobs carry it (mutateScheduledDraft and the
\* replans of scheduled-draft-mutation.ts) or the author was told.
THEOREM PlansAreCurrent ==
  ASSUME Steady, "late" \notin Accidents
  PROVE  DraftSpec => DeliveredIsCurrent
<1>1. DraftInit => DraftInv
  BY DraftStarts DEF DraftInv
<1>2. DraftInv /\ [DraftNext]_draftVars =>
        [Deliver /\ behind = "no" => plan = PlanOf(posts, wants, mode, cards, files)]_draftVars
  <2> SUFFICES ASSUME DraftInv, Deliver, behind = "no" PROVE plan = PlanOf(posts, wants, mode, cards, files)
    OBVIOUS
  <2>1. status = "scheduled" /\ ~CardsBusy
    BY DEF Deliver
  <2>2. ~Awaited
    BY <2>1, NobodyWaitsForNothing DEF DraftInv, WaitingHasACard, Awaited
  <2> QED BY <2>1, <2>2 DEF DraftInv, PlanInv
<1> QED BY <1>1, <1>2, DraftStep, PTL DEF DraftSpec, DeliveredIsCurrent
=============================================================================
