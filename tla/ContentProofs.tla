--------------------------- MODULE ContentProofs ----------------------------
(* Proofs about the content the server keeps.  Classbook: the tree has no  *)
(* missing parents, uuids and localizations are not doubled, hashes match, *)
(* and the path classbook_info answers with is that of the article's       *)
(* ancestors.  GamesCache: the cache is what the table holds, and only a   *)
(* logo that a deletion left meets a new game, for any games, files and    *)
(* number of faults.                                                       *)
EXTENDS Classbook, GamesCache, Sums, FiniteSetTheorems, TLAPS

(* A uuid made by the server is that of the article it was made for.       *)
MadeUuids == \A r \in articles : r.uuid \in Uuids \/ r.uuid = r.id

ClassbookInv == ClassbookTypeOK /\ ParentExists /\ UuidsDistinct /\ MadeUuids /\ OneLocalPerLang /\ HashesMatch

(* What overwriting a text does to a row of each table, and a move to an   *)
(* article.                                                                *)
LEMMA TextOfArticle ==
  ASSUME NEW r \in Article, NEW text \in Texts
  PROVE  /\ WithText(r, text) \in Article
         /\ WithText(r, text).id = r.id /\ WithText(r, text).uuid = r.uuid
         /\ WithText(r, text).parentid = r.parentid
         /\ WithText(r, text).content = text /\ WithText(r, text).md5_content = Md5(text)
<1> DEFINE q == [r EXCEPT !.content = text]
<1>1. q \in Article /\ q.id = r.id /\ q.uuid = r.uuid /\ q.parentid = r.parentid /\ q.content = text
  BY DEF Article
<1>2. Md5(text) \in Hashes
  BY DEF Hashes
<1>3. WithText(r, text) = [q EXCEPT !.md5_content = Md5(text)]
  BY DEF WithText
<1> HIDE DEF q
<1> QED BY <1>1, <1>2, <1>3 DEF Article

LEMMA TextOfLocal ==
  ASSUME NEW r \in Local, NEW text \in Texts
  PROVE  /\ WithText(r, text) \in Local
         /\ WithText(r, text).id = r.id /\ WithText(r, text).classbookid = r.classbookid
         /\ WithText(r, text).lang = r.lang
         /\ WithText(r, text).content = text /\ WithText(r, text).md5_content = Md5(text)
<1> DEFINE q == [r EXCEPT !.content = text]
<1>1. q \in Local /\ q.id = r.id /\ q.classbookid = r.classbookid /\ q.lang = r.lang /\ q.content = text
  BY DEF Local
<1>2. Md5(text) \in Hashes
  BY DEF Hashes
<1>3. WithText(r, text) = [q EXCEPT !.md5_content = Md5(text)]
  BY DEF WithText
<1> HIDE DEF q
<1> QED BY <1>1, <1>2, <1>3 DEF Local

LEMMA TextOfProposal ==
  ASSUME NEW r \in Proposal, NEW text \in Texts
  PROVE  /\ WithText(r, text) \in Proposal /\ WithText(r, text).id = r.id
         /\ WithText(r, text).content = text /\ WithText(r, text).md5_content = Md5(text)
<1> DEFINE q == [r EXCEPT !.content = text]
<1>1. q \in Proposal /\ q.id = r.id /\ q.content = text
  BY DEF Proposal
<1>2. Md5(text) \in Hashes
  BY DEF Hashes
<1>3. WithText(r, text) = [q EXCEPT !.md5_content = Md5(text)]
  BY DEF WithText
<1> HIDE DEF q
<1> QED BY <1>1, <1>2, <1>3 DEF Proposal

LEMMA MoveOfArticle ==
  ASSUME NEW r \in Article, NEW p \in Nat
  PROVE  /\ WithParent(r, p) \in Article
         /\ WithParent(r, p).id = r.id /\ WithParent(r, p).uuid = r.uuid
         /\ WithParent(r, p).parentid = p
         /\ WithParent(r, p).content = r.content
         /\ WithParent(r, p).md5_content = r.md5_content
BY DEF Article, WithParent

(* A table with the articles' ids and uuids in which parents exist and     *)
(* hashes match: what an UPDATE may make of articles.                      *)
IsUpdate(S) ==
  /\ S \subseteq Article
  /\ \A s \in S : \E r \in articles : r.id = s.id /\ r.uuid = s.uuid
  /\ \A r \in articles : \E s \in S : s.id = r.id
  /\ \A s, t \in S : s.id = t.id => s = t
  /\ \A s \in S : s.md5_content = Md5(s.content)
  /\ \A s \in S : s.parentid = 0 \/ HasArticle(s.parentid)

(* It is one if New puts a row in the place of each article, with its id   *)
(* and uuid, a parent that exists and a hash that matches.                 *)
LEMMA RowByRow ==
  ASSUME ClassbookInv, NEW S, NEW New,
         S = {New[r] : r \in articles},
         \A r \in articles :
           /\ New[r] \in Article /\ New[r].id = r.id /\ New[r].uuid = r.uuid
           /\ New[r].md5_content = Md5(New[r].content)
           /\ New[r].parentid = 0 \/ HasArticle(New[r].parentid)
  PROVE  IsUpdate(S)
<1>1. \A s, t \in S : s.id = t.id => s = t
  BY DEF ClassbookInv, ClassbookTypeOK
<1>2. S \subseteq Article /\ \A s \in S : \E r \in articles : r.id = s.id /\ r.uuid = s.uuid
  OBVIOUS
<1>3. \A r \in articles : \E s \in S : s.id = r.id
  OBVIOUS
<1>4. \A s \in S : s.md5_content = Md5(s.content) /\ (s.parentid = 0 \/ HasArticle(s.parentid))
  OBVIOUS
<1> QED BY <1>1, <1>2, <1>3, <1>4 DEF IsUpdate

LEMMA MovedUpdates ==
  ASSUME ClassbookInv, NEW a, NEW p \in Nat, ParentAllowed(p)
  PROVE  IsUpdate(Moved(a, p))
<1> DEFINE New == [r \in articles |-> IF r.id = a THEN WithParent(r, p) ELSE r]
<1>1. Moved(a, p) = {New[r] : r \in articles}
  BY DEF Moved
<1>2. ASSUME NEW r \in articles
      PROVE  /\ New[r] \in Article /\ New[r].id = r.id /\ New[r].uuid = r.uuid
             /\ New[r].md5_content = Md5(New[r].content)
             /\ New[r].parentid = 0 \/ HasArticle(New[r].parentid)
  <2>1. r \in Article /\ r.md5_content = Md5(r.content) /\ (r.parentid = 0 \/ HasArticle(r.parentid))
    BY DEF ClassbookInv, ClassbookTypeOK, HashesMatch, ParentExists
  <2>2. New[r] = IF r.id = a THEN WithParent(r, p) ELSE r
    OBVIOUS
  <2> HIDE DEF New
  <2> QED BY <2>1, <2>2, MoveOfArticle DEF ParentAllowed
<1> HIDE DEF New
<1> QED BY <1>1, <1>2, RowByRow

LEMMA RewrittenUpdates ==
  ASSUME ClassbookInv, NEW a, NEW text \in Texts
  PROVE  IsUpdate(Rewritten(a, text))
<1> DEFINE New == [r \in articles |-> IF r.id = a THEN WithText(r, text) ELSE r]
<1>1. Rewritten(a, text) = {New[r] : r \in articles}
  BY DEF Rewritten
<1>2. ASSUME NEW r \in articles
      PROVE  /\ New[r] \in Article /\ New[r].id = r.id /\ New[r].uuid = r.uuid
             /\ New[r].md5_content = Md5(New[r].content)
             /\ New[r].parentid = 0 \/ HasArticle(New[r].parentid)
  <2>1. r \in Article /\ r.md5_content = Md5(r.content) /\ (r.parentid = 0 \/ HasArticle(r.parentid))
    BY DEF ClassbookInv, ClassbookTypeOK, HashesMatch, ParentExists
  <2>2. New[r] = IF r.id = a THEN WithText(r, text) ELSE r
    OBVIOUS
  <2> HIDE DEF New
  <2> QED BY <2>1, <2>2, TextOfArticle
<1> HIDE DEF New
<1> QED BY <1>1, <1>2, RowByRow

LEMMA MovedAndRewrittenUpdates ==
  ASSUME ClassbookInv, NEW a, NEW p \in Nat, ParentAllowed(p), NEW text \in Texts
  PROVE  IsUpdate(MovedAndRewritten(a, p, text))
<1> DEFINE New == [r \in articles |-> IF r.id = a THEN WithText(WithParent(r, p), text) ELSE r]
<1>1. MovedAndRewritten(a, p, text) = {New[r] : r \in articles}
  BY DEF MovedAndRewritten
<1>2. ASSUME NEW r \in articles
      PROVE  /\ New[r] \in Article /\ New[r].id = r.id /\ New[r].uuid = r.uuid
             /\ New[r].md5_content = Md5(New[r].content)
             /\ New[r].parentid = 0 \/ HasArticle(New[r].parentid)
  <2>1. r \in Article /\ r.md5_content = Md5(r.content) /\ (r.parentid = 0 \/ HasArticle(r.parentid))
    BY DEF ClassbookInv, ClassbookTypeOK, HashesMatch, ParentExists
  <2>2. /\ WithParent(r, p) \in Article /\ WithParent(r, p).id = r.id
        /\ WithParent(r, p).uuid = r.uuid /\ WithParent(r, p).parentid = p
    BY <2>1, MoveOfArticle
  <2>3. New[r] = IF r.id = a THEN WithText(WithParent(r, p), text) ELSE r
    OBVIOUS
  <2> HIDE DEF New
  <2> QED BY <2>1, <2>2, <2>3, TextOfArticle DEF ParentAllowed
<1> HIDE DEF New
<1> QED BY <1>1, <1>2, RowByRow

(* An UPDATE of articles keeps the invariant.                              *)
LEMMA UpdateKeepsInv ==
  ASSUME ClassbookInv, IsUpdate(articles'), UNCHANGED <<locals, proposals, next, listing>>,
         requests' \in 0..MaxRequests
  PROVE  ClassbookInv'
<1> USE DEF ClassbookInv
<1>1. ClassbookTypeOK'
  BY DEF ClassbookTypeOK, IsUpdate
<1>2. ParentExists'
  BY DEF ParentExists, IsUpdate, HasArticle
<1>3. UuidsDistinct' /\ MadeUuids'
  BY DEF UuidsDistinct, MadeUuids, IsUpdate
<1>4. OneLocalPerLang' /\ HashesMatch'
  BY DEF OneLocalPerLang, HashesMatch, IsUpdate
<1> QED BY <1>1, <1>2, <1>3, <1>4

LEMMA ClassbookInitInv == ClassbookInit => ClassbookInv
  BY ClassbookAssumption
  DEF ClassbookInit, ClassbookInv, ClassbookTypeOK, ParentExists, UuidsDistinct, MadeUuids, OneLocalPerLang, HashesMatch

LEMMA ServingCounts ==
  ASSUME ClassbookInv, ClassbookServing
  PROVE  requests' \in 0..MaxRequests
  BY ClassbookAssumption DEF ClassbookInv, ClassbookTypeOK, ClassbookServing

(* A step that leaves articles alone keeps what is said of them.           *)
LEMMA ArticlesAlone ==
  ASSUME ClassbookInv, articles' = articles
  PROVE  ParentExists' /\ UuidsDistinct' /\ MadeUuids'
  BY DEF ClassbookInv, ParentExists, UuidsDistinct, MadeUuids, HasArticle

LEMMA AddKeepsInv ==
  ASSUME ClassbookInv, NEW p \in Ids, NEW u \in Uuids \cup {0}, NEW text \in Texts, AddRecord(p, u, text)
  PROVE  ClassbookInv'
<1> USE DEF ClassbookInv
<1> DEFINE id == next.article
           new == [id |-> id, parentid |-> p, uuid |-> IF u \in Uuids THEN u ELSE id,
                   content |-> text, md5_content |-> Md5(text)]
<1>1. /\ articles' = articles \cup {new}
      /\ next' = [next EXCEPT !.article = id + 1]
      /\ UNCHANGED <<locals, proposals, listing>>
      /\ ParentAllowed(p) /\ (u \in Uuids => UuidIsFree(u)) /\ requests' \in 0..MaxRequests
  BY ServingCounts DEF AddRecord
<1>2. /\ id \in Nat \ {0} /\ p \in Nat /\ Md5(text) \in Hashes
      /\ \A r \in articles : r \in Article /\ r.id < id /\ r.id \in Nat
  BY ClassbookAssumption DEF ClassbookTypeOK, Ids, Hashes, Article
<1>3. new \in Article
  BY <1>2 DEF Article
<1>4. /\ next'.article = id + 1 /\ next'.local = next.local /\ next'.proposal = next.proposal
      /\ next' \in [article : Nat \ {0}, local : Nat \ {0}, proposal : Nat \ {0}]
  BY <1>1, <1>2 DEF ClassbookTypeOK
<1>5. ClassbookTypeOK'
  <2>1. articles' \subseteq Article /\ \A r \in articles' : r.id < next'.article
    BY <1>1, <1>2, <1>3, <1>4
  <2>2. \A r, s \in articles' : r.id = s.id => r = s
    BY <1>1, <1>2 DEF ClassbookTypeOK
  <2> QED BY <1>1, <1>4, <2>1, <2>2 DEF ClassbookTypeOK
<1>6. ParentExists'
  BY <1>1 DEF ParentExists, HasArticle, ParentAllowed
<1>7. MadeUuids'
  BY <1>1 DEF MadeUuids
<1>8. UuidsDistinct'
  <2>1. \A r \in articles : r.uuid # new.uuid
    <3>1. CASE u \in Uuids
      BY <1>1, <3>1 DEF UuidIsFree
    <3>2. CASE u \notin Uuids
      BY <1>2, <3>2, ClassbookAssumption DEF MadeUuids
    <3> QED BY <3>1, <3>2
  <2> QED BY <1>1, <2>1 DEF UuidsDistinct
<1>9. OneLocalPerLang' /\ HashesMatch'
  BY <1>1 DEF OneLocalPerLang, HashesMatch
<1> QED BY <1>5, <1>6, <1>7, <1>8, <1>9

LEMMA DeleteKeepsInv ==
  ASSUME ClassbookInv, NEW a \in Ids, NEW done \in 0..2, DeleteRecord(a, done)
  PROVE  ClassbookInv'
<1> USE DEF ClassbookInv
<1>1. /\ Children(a) = {} /\ UNCHANGED <<proposals, next, listing>> /\ requests' \in 0..MaxRequests
      /\ articles' \subseteq articles /\ locals' \subseteq locals
      /\ \A r \in articles : r.id # a => r \in articles'
  BY ServingCounts DEF DeleteRecord, MayDelete
<1>2. ClassbookTypeOK'
  BY <1>1 DEF ClassbookTypeOK
<1>3. ParentExists'
  BY <1>1 DEF ParentExists, HasArticle, Children
<1>4. UuidsDistinct' /\ MadeUuids' /\ OneLocalPerLang' /\ HashesMatch'
  BY <1>1 DEF UuidsDistinct, MadeUuids, OneLocalPerLang, HashesMatch
<1> QED BY <1>2, <1>3, <1>4

LEMMA UpdateRecordKeepsInv ==
  ASSUME ClassbookInv, NEW a \in Ids, NEW p \in Ids, NEW text \in Texts, NEW done \in 0..2,
         UpdateRecord(a, p, text, done)
  PROVE  ClassbookInv'
<1>1. /\ UNCHANGED <<locals, proposals, next, listing>> /\ ParentAllowed(p) /\ p \in Nat
      /\ requests' \in 0..MaxRequests
  BY ServingCounts, ClassbookAssumption DEF UpdateRecord, Ids
<1>2. CASE articles' = articles
  <2>1. ClassbookTypeOK' /\ OneLocalPerLang' /\ HashesMatch'
    BY <1>1, <1>2 DEF ClassbookInv, ClassbookTypeOK, OneLocalPerLang, HashesMatch
  <2> QED BY <1>2, <2>1, ArticlesAlone DEF ClassbookInv
<1>3. CASE articles' = Moved(a, p) \/ articles' = MovedAndRewritten(a, p, text)
  BY <1>1, <1>3, MovedUpdates, MovedAndRewrittenUpdates, UpdateKeepsInv
<1> QED BY <1>2, <1>3 DEF UpdateRecord

LEMMA LocalStepKeepsInv ==
  ASSUME ClassbookInv, LocalStep
  PROVE  ClassbookInv'
<1> USE DEF ClassbookInv
<1>1. ASSUME NEW a \in Ids, NEW lang \in Langs, NEW text \in Texts, AddLocalization(a, lang, text)
      PROVE  ClassbookInv'
  <2> DEFINE id == next.local
             new == [id |-> id, classbookid |-> a, lang |-> lang, content |-> text,
                     md5_content |-> Md5(text)]
  <2>1. /\ locals' = locals \cup {new} /\ next' = [next EXCEPT !.local = id + 1]
        /\ UNCHANGED <<articles, proposals, listing>>
        /\ ~IsLocalized(a, lang) /\ requests' \in 0..MaxRequests
    BY <1>1, ServingCounts DEF AddLocalization
  <2>2. id \in Nat \ {0} /\ a \in Nat /\ Md5(text) \in Hashes
    BY ClassbookAssumption DEF ClassbookTypeOK, Ids, Hashes
  <2>3. new \in Local
    BY <2>2 DEF Local
  <2>4. \A l \in locals : l \in Local /\ l.id < id /\ l.id \in Nat
    BY DEF ClassbookTypeOK, Local
  <2>5. /\ next'.local = id + 1 /\ next'.article = next.article /\ next'.proposal = next.proposal
        /\ next' \in [article : Nat \ {0}, local : Nat \ {0}, proposal : Nat \ {0}]
    BY <2>1, <2>2 DEF ClassbookTypeOK
  <2>6. /\ locals' \subseteq Local /\ \A l \in locals' : l.id < next'.local
        /\ \A l, m \in locals' : l.id = m.id => l = m
    BY <2>1, <2>2, <2>3, <2>4, <2>5 DEF ClassbookTypeOK
  <2>7. ClassbookTypeOK'
    BY <2>1, <2>5, <2>6 DEF ClassbookTypeOK
  <2>8. OneLocalPerLang'
    BY <2>1 DEF OneLocalPerLang, IsLocalized
  <2>9. HashesMatch'
    BY <2>1 DEF HashesMatch
  <2> QED BY <2>1, <2>7, <2>8, <2>9, ArticlesAlone
<1>2. ASSUME NEW l \in locals, DeleteLocalization(l)
      PROVE  ClassbookInv'
  <2>1. /\ UNCHANGED <<articles, proposals, next, listing>> /\ locals' \subseteq locals
        /\ requests' \in 0..MaxRequests
    BY <1>2, ServingCounts DEF DeleteLocalization
  <2>2. ClassbookTypeOK' /\ OneLocalPerLang' /\ HashesMatch'
    BY <2>1 DEF ClassbookTypeOK, OneLocalPerLang, HashesMatch
  <2> QED BY <2>1, <2>2, ArticlesAlone
<1>3. ASSUME NEW l \in locals, NEW text \in Texts, UpdateLocalization(l, text)
      PROVE  ClassbookInv'
  <2> DEFINE new == WithText(l, text)
  <2>1. /\ UNCHANGED <<articles, proposals, next, listing>>
        /\ locals' = (locals \ {l}) \cup {new} /\ requests' \in 0..MaxRequests
    BY <1>3, ServingCounts DEF UpdateLocalization
  <2>2. /\ new \in Local /\ new.id = l.id /\ new.classbookid = l.classbookid /\ new.lang = l.lang
        /\ new.md5_content = Md5(new.content)
    BY TextOfLocal DEF ClassbookTypeOK
  <2> HIDE DEF new
  <2>3. ClassbookTypeOK' /\ OneLocalPerLang' /\ HashesMatch'
    BY <2>1, <2>2 DEF ClassbookTypeOK, OneLocalPerLang, HashesMatch
  <2> QED BY <2>1, <2>3, ArticlesAlone
<1> QED BY <1>1, <1>2, <1>3 DEF LocalStep

LEMMA ProposalStepKeepsInv ==
  ASSUME ClassbookInv, ProposalStep
  PROVE  ClassbookInv'
<1> USE DEF ClassbookInv
<1>1. ASSUME NEW a \in Ids, NEW lang \in Langs, NEW text \in Texts, AddProposal(a, lang, text)
      PROVE  ClassbookInv'
  <2> DEFINE id == next.proposal
  <2>1. PICK b \in Before(a, lang) :
          proposals' = proposals \cup
            {[id |-> id, classbookid |-> a, lang |-> lang, content |-> text,
              content_before |-> b.content, md5_content |-> Md5(text)]}
    BY <1>1 DEF AddProposal
  <2> DEFINE new == [id |-> id, classbookid |-> a, lang |-> lang, content |-> text,
                     content_before |-> b.content, md5_content |-> Md5(text)]
  <2>2. /\ next' = [next EXCEPT !.proposal = id + 1]
        /\ UNCHANGED <<articles, locals, listing>> /\ requests' \in 0..MaxRequests
    BY <1>1, ServingCounts DEF AddProposal
  <2>3. id \in Nat \ {0} /\ a \in Nat /\ Md5(text) \in Hashes /\ b.content \in Texts
    BY ClassbookAssumption DEF ClassbookTypeOK, Ids, Hashes, Before, Article, Local
  <2>4. new \in Proposal
    BY <2>3 DEF Proposal
  <2>5. \A q \in proposals : q \in Proposal /\ q.id < id /\ q.id \in Nat
    BY DEF ClassbookTypeOK, Proposal
  <2>6. /\ next'.proposal = id + 1 /\ next'.article = next.article /\ next'.local = next.local
        /\ next' \in [article : Nat \ {0}, local : Nat \ {0}, proposal : Nat \ {0}]
    BY <2>2, <2>3 DEF ClassbookTypeOK
  <2>7. /\ proposals' \subseteq Proposal /\ \A q \in proposals' : q.id < next'.proposal
        /\ \A q, r \in proposals' : q.id = r.id => q = r
    BY <2>1, <2>3, <2>4, <2>5, <2>6 DEF ClassbookTypeOK
  <2>8. ClassbookTypeOK'
    BY <2>2, <2>6, <2>7 DEF ClassbookTypeOK
  <2>9. OneLocalPerLang' /\ HashesMatch'
    BY <2>1, <2>2 DEF OneLocalPerLang, HashesMatch
  <2> QED BY <2>2, <2>8, <2>9, ArticlesAlone
<1>2. ASSUME NEW q \in proposals, DeleteProposal(q)
      PROVE  ClassbookInv'
  <2>1. /\ UNCHANGED <<articles, locals, next, listing>> /\ proposals' \subseteq proposals
        /\ requests' \in 0..MaxRequests
    BY <1>2, ServingCounts DEF DeleteProposal
  <2>2. ClassbookTypeOK' /\ OneLocalPerLang' /\ HashesMatch'
    BY <2>1 DEF ClassbookTypeOK, OneLocalPerLang, HashesMatch
  <2> QED BY <2>1, <2>2, ArticlesAlone
<1>3. ASSUME NEW q \in proposals, NEW text \in Texts, UpdateProposal(q, text)
      PROVE  ClassbookInv'
  <2> DEFINE new == WithText(q, text)
  <2>1. /\ UNCHANGED <<articles, locals, next, listing>>
        /\ proposals' = (proposals \ {q}) \cup {new} /\ requests' \in 0..MaxRequests
    BY <1>3, ServingCounts DEF UpdateProposal, Reworded
  <2>2. new \in Proposal /\ new.id = q.id /\ new.md5_content = Md5(new.content)
    BY TextOfProposal DEF ClassbookTypeOK
  <2> HIDE DEF new
  <2>3. ClassbookTypeOK' /\ OneLocalPerLang' /\ HashesMatch'
    BY <2>1, <2>2 DEF ClassbookTypeOK, OneLocalPerLang, HashesMatch
  <2> QED BY <2>1, <2>3, ArticlesAlone
<1>4. ASSUME NEW q \in proposals, ApproveProposal(q)
      PROVE  ClassbookInv'
  <2>1. /\ articles' = Rewritten(q.classbookid, q.content)
        /\ UNCHANGED <<locals, proposals, next, listing>> /\ requests' \in 0..MaxRequests
    BY <1>4, ServingCounts DEF ApproveProposal
  <2>2. q.content \in Texts
    BY DEF ClassbookTypeOK, Proposal
  <2> QED BY <2>1, <2>2, RewrittenUpdates, UpdateKeepsInv
<1>5. ASSUME NEW a \in Ids, ListProposals(a)
      PROVE  ClassbookInv'
  <2>1. UNCHANGED tables /\ listing' = "first" /\ requests' \in 0..MaxRequests
    BY <1>5, ServingCounts DEF ListProposals
  <2>2. ClassbookTypeOK' /\ OneLocalPerLang' /\ HashesMatch'
    BY <2>1 DEF tables, ClassbookTypeOK, OneLocalPerLang, HashesMatch
  <2> QED BY <2>1, <2>2, ArticlesAlone DEF tables
<1> QED BY <1>1, <1>2, <1>3, <1>4, <1>5 DEF ProposalStep

LEMMA NextKeepsInv == ClassbookInv /\ [ClassbookNext]_classbookVars => ClassbookInv'
<1> SUFFICES ASSUME ClassbookInv, [ClassbookNext]_classbookVars PROVE ClassbookInv'
  OBVIOUS
<1>1. CASE ArticleStep
  BY <1>1, AddKeepsInv, DeleteKeepsInv, UpdateRecordKeepsInv DEF ArticleStep
<1>2. CASE LocalStep
  BY <1>2, LocalStepKeepsInv
<1>3. CASE ProposalStep
  BY <1>3, ProposalStepKeepsInv
<1>4. CASE ListingRound \/ Restart \/ UNCHANGED classbookVars
  <2>1. UNCHANGED tables /\ listing' \in {"no", "first", "again"} /\ requests' = requests
    BY <1>4 DEF ListingRound, Restart, classbookVars, NextRound, ClassbookInv, ClassbookTypeOK
  <2>2. ClassbookTypeOK' /\ OneLocalPerLang' /\ HashesMatch'
    BY <2>1 DEF ClassbookInv, tables, ClassbookTypeOK, OneLocalPerLang, HashesMatch
  <2> QED BY <2>1, <2>2, ArticlesAlone DEF ClassbookInv, tables
<1> QED BY <1>1, <1>2, <1>3, <1>4 DEF ClassbookNext, Serve

THEOREM ClassbookHolds == ClassbookSpec => []ClassbookInv
  BY ClassbookInitInv, NextKeepsInv, PTL DEF ClassbookSpec

(* Rows have the types of their columns and numbers that were given once,  *)
(* for any number of articles, languages and texts.                        *)
THEOREM ClassbookTypesHold == ClassbookSpec => []ClassbookTypeOK
<1>1. ClassbookInv => ClassbookTypeOK
  BY DEF ClassbookInv
<1> QED BY <1>1, ClassbookHolds, PTL

(* No article is left below one that is gone.                              *)
THEOREM ParentsExist == ClassbookSpec => []ParentExists
<1>1. ClassbookInv => ParentExists
  BY DEF ClassbookInv
<1> QED BY <1>1, ClassbookHolds, PTL

(* No uuid is given to two articles.                                       *)
THEOREM UuidsAreDistinct == ClassbookSpec => []UuidsDistinct
<1>1. ClassbookInv => UuidsDistinct
  BY DEF ClassbookInv
<1> QED BY <1>1, ClassbookHolds, PTL

(* No article has two localizations in one language.                       *)
THEOREM LocalsAreSingle == ClassbookSpec => []OneLocalPerLang
<1>1. ClassbookInv => OneLocalPerLang
  BY DEF ClassbookInv
<1> QED BY <1>1, ClassbookHolds, PTL

(* Every hash is that of the text beside it.                               *)
THEOREM HashesAgree == ClassbookSpec => []HashesMatch
<1>1. ClassbookInv => HashesMatch
  BY DEF ClassbookInv
<1> QED BY <1>1, ClassbookHolds, PTL

(* The three together.                                                     *)
THEOREM RowsAreTrue == ClassbookSpec => []RowsTrue
BY UuidsAreDistinct, LocalsAreSingle, HashesAgree, PTL DEF RowsTrue
-----------------------------------------------------------------------------
(* The path of classbook_info.  After n rounds, of an article a: the path  *)
(* is a chain of parents without repetition; it goes on from no root; and  *)
(* a round in which it did not grow is one after which it never will.      *)
WayUp(a, path) == <<a>> \o path

PathOK(a, path, n) ==
  LET m == Len(path)
      chain == WayUp(a, path)
  IN  /\ path \in Seq(Nat) /\ m <= n
      /\ \A i \in 1..m : path[i] = ParentOf(chain[i]) /\ chain[i] # 0
      /\ \A i, j \in 1..(m + 1) : chain[i] = chain[j] => i = j
      /\ chain[m + 1] = 0 \/ HasArticle(chain[m + 1])
      /\ m = n \/ chain[m + 1] = 0 \/ \E i \in 1..(m + 1) : chain[i] = ParentOf(chain[m + 1])

LEMMA WayUpIs ==
  ASSUME NEW a \in Nat, NEW path \in Seq(Nat)
  PROVE  /\ WayUp(a, path) \in Seq(Nat) /\ Len(WayUp(a, path)) = Len(path) + 1
         /\ WayUp(a, path)[1] = a /\ \A i \in 1..Len(path) : WayUp(a, path)[i + 1] = path[i]
         /\ WayUp(a, path)[Len(path) + 1] = IF path = <<>> THEN a ELSE Last(path)
BY DEF WayUp, Last

LEMMA WayUpGrows ==
  ASSUME NEW a \in Nat, NEW path \in Seq(Nat), NEW up \in Nat
  PROVE  /\ Append(path, up) \in Seq(Nat) /\ Len(Append(path, up)) = Len(path) + 1
         /\ Append(path, up)[Len(path) + 1] = up
         /\ \A i \in 1..Len(path) : Append(path, up)[i] = path[i]
         /\ WayUp(a, Append(path, up))[Len(path) + 2] = up
         /\ \A i \in 1..(Len(path) + 1) : WayUp(a, Append(path, up))[i] = WayUp(a, path)[i]
BY DEF WayUp

(* A parent is the root or an article.                                     *)
LEMMA ParentOfArticle ==
  ASSUME ClassbookTypeOK, ParentExists, NEW a, HasArticle(a)
  PROVE  ParentOf(a) \in Nat /\ (ParentOf(a) = 0 \/ HasArticle(ParentOf(a)))
<1>1. PICK r \in articles : r.id = a /\ ParentOf(a) = r.parentid
  BY DEF HasArticle, ParentOf
<1>. QED BY <1>1 DEF ClassbookTypeOK, ParentExists, Article

LEMMA PathGrows ==
  ASSUME NEW a \in Nat, NEW path, NEW n \in Nat, PathOK(a, path, n), NEW up \in Nat,
         WayUp(a, path)[Len(path) + 1] # 0, up = ParentOf(WayUp(a, path)[Len(path) + 1]),
         up = 0 \/ HasArticle(up), \A i \in 1..(Len(path) + 1) : WayUp(a, path)[i] # up
  PROVE  PathOK(a, Append(path, up), n + 1)
<1>. DEFINE m == Len(path)
            c == WayUp(a, path)
            p == Append(path, up)
            d == WayUp(a, p)
<1>1. path \in Seq(Nat) /\ m \in Nat /\ m <= n
  BY DEF PathOK
<1>2. /\ p \in Seq(Nat) /\ Len(p) = m + 1 /\ p[m + 1] = up /\ \A i \in 1..m : p[i] = path[i]
      /\ d[m + 2] = up /\ \A i \in 1..(m + 1) : d[i] = c[i]
  BY <1>1, WayUpGrows
<1>3. /\ \A i \in 1..m : path[i] = ParentOf(c[i]) /\ c[i] # 0
      /\ \A i, j \in 1..(m + 1) : c[i] = c[j] => i = j
      /\ c[m + 1] = 0 \/ HasArticle(c[m + 1])
      /\ m = n \/ c[m + 1] = 0 \/ \E i \in 1..(m + 1) : c[i] = ParentOf(c[m + 1])
  BY DEF PathOK
<1>4. c[m + 1] # 0 /\ up = ParentOf(c[m + 1]) /\ \A i \in 1..(m + 1) : c[i] # up
  OBVIOUS
<1>. HIDE DEF m, c, p, d
<1>5. \A i \in 1..(m + 1) : p[i] = ParentOf(d[i]) /\ d[i] # 0
  <2>. TAKE i \in 1..(m + 1)
  <2>1. CASE i = m + 1
    BY <1>1, <1>2, <1>4, <2>1
  <2>2. CASE i # m + 1
    <3>1. i \in 1..m
      BY <1>1, <2>2
    <3>. QED BY <1>2, <1>3, <3>1
  <2>. QED BY <2>1, <2>2
<1>6. ASSUME NEW i \in 1..(m + 2), NEW j \in 1..(m + 2), d[i] = d[j] PROVE i = j
  <2>1. CASE i = m + 2 /\ j = m + 2
    BY <2>1
  <2>2. CASE i = m + 2 /\ j # m + 2
    <3>1. j \in 1..(m + 1)
      BY <1>1, <2>2
    <3>. QED BY <1>2, <1>4, <1>6, <2>2, <3>1
  <2>3. CASE i # m + 2 /\ j = m + 2
    <3>1. i \in 1..(m + 1)
      BY <1>1, <2>3
    <3>. QED BY <1>2, <1>4, <1>6, <2>3, <3>1
  <2>4. CASE i # m + 2 /\ j # m + 2
    <3>1. i \in 1..(m + 1) /\ j \in 1..(m + 1)
      BY <1>1, <2>4
    <3>. QED BY <1>2, <1>3, <1>6, <3>1
  <2>. QED BY <2>1, <2>2, <2>3, <2>4
<1>7. m = n
  BY <1>3, <1>4
<1>8. Len(p) = m + 1 /\ Len(p) + 1 = m + 2
  BY <1>1, <1>2
<1>9. Len(p) <= n + 1 /\ Len(p) = n + 1
  BY <1>1, <1>7, <1>8
<1>. QED BY <1>2, <1>5, <1>6, <1>8, <1>9 DEF PathOK, p, d

LEMMA PathRoundKeeps ==
  ASSUME ClassbookTypeOK, ParentExists, NEW a \in Nat, NEW path, NEW n \in Nat, PathOK(a, path, n)
  PROVE  PathOK(a, PathRound(a, path), n + 1)
<1>. DEFINE m == Len(path)
            c == WayUp(a, path)
            at == IF path = <<>> THEN a ELSE Last(path)
            up == ParentOf(at)
<1>1. path \in Seq(Nat) /\ m \in Nat
  BY DEF PathOK
<1>2. c[m + 1] = at /\ c[1] = a /\ \A i \in 1..m : c[i + 1] = path[i]
  BY <1>1, WayUpIs
<1>3. path # NotFound
  <2>. SUFFICES ASSUME path = NotFound PROVE FALSE
    OBVIOUS
  <2>1. m = 2 /\ path[1] = 0
    BY DEF NotFound
  <2>2. c[2] = 0
    BY <1>2, <2>1
  <2>. QED BY <2>1, <2>2 DEF PathOK
<1>4. CASE at = 0
  <2>1. PathRound(a, path) = path
    BY <1>4 DEF PathRound
  <2>. QED BY <1>1, <1>2, <1>4, <2>1 DEF PathOK
<1>5. CASE at # 0
  <2>1. HasArticle(at)
    BY <1>2, <1>5 DEF PathOK
  <2>2. up \in Nat /\ (up = 0 \/ HasArticle(up))
    BY <2>1, ParentOfArticle
  <2>3. Fresh(a, path, up) <=> \A i \in 1..(m + 1) : c[i] # up
    <3>1. \A i \in 1..(m + 1) : i = 1 \/ (i - 1 \in 1..m /\ c[i] = path[i - 1])
      BY <1>1, <1>2
    <3>2. \A i \in 1..m : i + 1 \in 1..(m + 1) /\ c[i + 1] = path[i]
      BY <1>1, <1>2
    <3>3. DOMAIN path = 1..m /\ 1 \in 1..(m + 1)
      BY <1>1
    <3>. HIDE DEF c, up, m
    <3>. QED BY <1>2, <3>1, <3>2, <3>3 DEF Fresh
  <2>4. CASE up = 0
    <3>1. PathRound(a, path) = Append(path, up)
      BY <1>3, <1>5, <2>4 DEF PathRound
    <3>2. \A i \in 1..(m + 1) : c[i] # 0
      <4>1. \A i \in 1..m : c[i] # 0
        BY DEF PathOK
      <4>2. \A i \in 1..(m + 1) : i = m + 1 \/ i \in 1..m
        BY <1>1
      <4>. QED BY <1>2, <1>5, <4>1, <4>2
    <3>. QED BY <1>2, <1>5, <2>2, <2>4, <3>1, <3>2, PathGrows
  <2>5. CASE up # 0 /\ Fresh(a, path, up)
    <3>1. PathRound(a, path) = Append(path, up)
      BY <1>3, <1>5, <2>2, <2>5 DEF PathRound
    <3>. QED BY <1>2, <1>5, <2>2, <2>3, <2>5, <3>1, PathGrows
  <2>6. CASE up # 0 /\ ~Fresh(a, path, up)
    <3>1. PathRound(a, path) = path
      BY <1>3, <1>5, <2>2, <2>6 DEF PathRound
    <3>2. \E i \in 1..(m + 1) : c[i] = ParentOf(c[m + 1])
      BY <1>2, <2>3, <2>6
    <3>3. PathOK(a, path, n + 1)
      BY <1>1, <3>2 DEF PathOK
    <3>. QED BY <3>1, <3>3
  <2>. QED BY <2>4, <2>5, <2>6
<1>. QED BY <1>4, <1>5

(* The function that InfoPath takes the last value of.                     *)
PathStep(a, g, n) == IF n = 0 THEN <<>> ELSE PathRound(a, g[n - 1])
Paths(a) == CHOOSE g : g = [n \in 0..PathRounds |-> PathStep(a, g, n)]

LEMMA InfoPathIs ==
  ASSUME NEW a
  PROVE  InfoPath(a) = Paths(a)[PathRounds]
BY DEF InfoPath, Paths, PathStep

(* It exists: Upto(n, g) restricts the equation to the first n rounds.     *)
LEMMA PathsAre ==
  ASSUME NEW a, NEW n \in 0..PathRounds
  PROVE  Paths(a)[n] = PathStep(a, Paths(a), n)
<1>. DEFINE Upto(k, g) == [i \in 0..PathRounds |-> IF i <= k THEN PathStep(a, g, i) ELSE <<>>]
            Ks == {k \in Nat : \E g : g = Upto(k, g)}
<1>0. PathRounds \in Nat
  BY ClassbookAssumption
<1>1. 0 \in Ks
  <2>. DEFINE g == [i \in 0..PathRounds |-> <<>>]
  <2>1. g = Upto(0, g)
    BY <1>0 DEF PathStep
  <2>. QED BY <2>1
<1>2. ASSUME NEW k \in Nat, k \in Ks PROVE k + 1 \in Ks
  <2>1. PICK g : g = Upto(k, g)
    BY <1>2
  <2>. DEFINE h == Upto(k + 1, g)
  <2>2. \A i \in 0..PathRounds : i <= k => g[i] = h[i]
    <3>. TAKE i \in 0..PathRounds
    <3>. HAVE i <= k
    <3>1. i <= k + 1
      BY <1>0
    <3>2. g[i] = Upto(k, g)[i]
      BY <2>1
    <3>. QED BY <3>1, <3>2
  <2>3. \A i \in 0..PathRounds : i <= k + 1 => PathStep(a, g, i) = PathStep(a, h, i)
    <3>. TAKE i \in 0..PathRounds
    <3>. HAVE i <= k + 1
    <3>. HIDE DEF h
    <3>1. CASE i = 0
      BY <3>1 DEF PathStep
    <3>2. CASE i # 0
      <4>1. i - 1 \in 0..PathRounds /\ i - 1 <= k
        BY <1>0, <3>2
      <4>. QED BY <2>2, <3>2, <4>1 DEF PathStep
    <3>. QED BY <3>1, <3>2
  <2>4. h = Upto(k + 1, h)
    BY <2>3
  <2>5. \E f : f = Upto(k + 1, f)
    BY <2>4
  <2>. QED BY <2>5
<1>3. PathRounds \in Ks
  BY <1>0, <1>1, <1>2, NatInduct
<1>4. PICK g : g = Upto(PathRounds, g)
  BY <1>3
<1>5. \A i \in 0..PathRounds : i <= PathRounds
  BY <1>0
<1>6. g = [i \in 0..PathRounds |-> PathStep(a, g, i)]
  BY <1>4, <1>5
<1>7. Paths(a) = [i \in 0..PathRounds |-> PathStep(a, Paths(a), i)]
  BY <1>6 DEF Paths
<1>. DEFINE P == Paths(a)
<1>. HIDE DEF P
<1>8. P = [i \in 0..PathRounds |-> PathStep(a, P, i)]
  BY <1>7 DEF P
<1>9. P[n] = PathStep(a, P, n)
  BY <1>8
<1>. QED BY <1>9 DEF P

LEMMA InfoPathOK ==
  ASSUME ClassbookTypeOK, ParentExists, NEW a \in Nat, HasArticle(a)
  PROVE  PathOK(a, InfoPath(a), PathRounds)
<1>. DEFINE Ns == {n \in Nat : n <= PathRounds => PathOK(a, Paths(a)[n], n)}
<1>0. PathRounds \in Nat
  BY ClassbookAssumption
<1>1. 0 \in Ns
  <2>1. Paths(a)[0] = <<>>
    BY <1>0, PathsAre DEF PathStep
  <2>2. PathOK(a, <<>>, 0)
    BY DEF PathOK, WayUp
  <2>. QED BY <2>1, <2>2
<1>2. ASSUME NEW n \in Nat, n \in Ns PROVE n + 1 \in Ns
  <2>. SUFFICES ASSUME n + 1 <= PathRounds PROVE PathOK(a, Paths(a)[n + 1], n + 1)
    OBVIOUS
  <2>1. n <= PathRounds /\ n + 1 \in 0..PathRounds /\ n + 1 # 0 /\ (n + 1) - 1 = n
    BY <1>0
  <2>2. Paths(a)[n + 1] = PathRound(a, Paths(a)[n])
    BY <2>1, PathsAre DEF PathStep
  <2>3. PathOK(a, Paths(a)[n], n)
    BY <1>2, <2>1
  <2>. QED BY <2>2, <2>3, PathRoundKeeps
<1>3. PathRounds \in Ns
  BY <1>0, <1>1, <1>2, NatInduct
<1>. QED BY <1>3, <1>0, InfoPathIs

LEMMA PathsOfTree == ClassbookTypeOK /\ ParentExists => PathIsAncestors
<1>. SUFFICES ASSUME ClassbookTypeOK, ParentExists, NEW r \in articles
              PROVE  LET path == InfoPath(r.id)
                         n == Len(path)
                         chain == <<r.id>> \o path
                     IN  /\ n <= PathRounds
                         /\ \A i \in 1..n : path[i] = ParentOf(chain[i])
                         /\ \A i, j \in 1..(n + 1) : chain[i] = chain[j] => i = j
                         /\ \/ n = PathRounds \/ Last(chain) = 0
                            \/ \E i \in 1..(n + 1) : chain[i] = ParentOf(Last(chain))
  BY DEF PathIsAncestors
<1>. DEFINE path == InfoPath(r.id)
            n == Len(path)
            chain == <<r.id>> \o path
<1>1. r.id \in Nat /\ HasArticle(r.id)
  BY DEF ClassbookTypeOK, Article, HasArticle
<1>2. PathOK(r.id, path, PathRounds)
  BY <1>1, InfoPathOK
<1>3. path \in Seq(Nat)
  BY <1>2 DEF PathOK
<1>4. Len(chain) = n + 1 /\ Last(chain) = chain[n + 1]
  BY <1>1, <1>3 DEF Last
<1>. HIDE DEF path
<1>5. n <= PathRounds /\ \A i \in 1..n : path[i] = ParentOf(chain[i])
  BY <1>2 DEF PathOK, WayUp
<1>6. \A i, j \in 1..(n + 1) : chain[i] = chain[j] => i = j
  BY <1>2 DEF PathOK, WayUp
<1>7. \/ n = PathRounds \/ Last(chain) = 0
      \/ \E i \in 1..(n + 1) : chain[i] = ParentOf(Last(chain))
  <2>1. \/ n = PathRounds \/ chain[n + 1] = 0
        \/ \E i \in 1..(n + 1) : chain[i] = ParentOf(chain[n + 1])
    BY <1>2 DEF PathOK, WayUp
  <2>. QED BY <1>4, <2>1
<1>. QED BY <1>5, <1>6, <1>7 DEF path

(* classbook_info's way up: whatever moves made of the tree, the parents   *)
(* it answers with are the chain of parents, without repetition, that ends *)
(* at the root, before a repetition or after PathRounds.                   *)
THEOREM PathsAreAncestors == ClassbookSpec => []PathIsAncestors
<1>1. ClassbookInv => PathIsAncestors
  BY PathsOfTree DEF ClassbookInv
<1>. QED BY <1>1, ClassbookHolds, PTL
-----------------------------------------------------------------------------
(* The cache of games.                                                     *)

(* A number met anywhere was given: it is below the next one, or a restart *)
(* of the database freed it.  The rows are always below the next number.   *)
WasGiven(n) == n < next_id \/ n \in taken_back

IdsOK ==
  /\ next_id > 0
  /\ \A u \in GameUuids : row_id[u] < next_id
  /\ \A u, v \in GameUuids : row_id[u] = row_id[v] /\ HasRow(u) => u = v
  /\ \A k \in DOMAIN vect : WasGiven(vect[k].id)
  /\ \A n \in logos : WasGiven(n)

(* A logo is of a file's game (0), of a game in the table, of the game     *)
(* being removed, or of one whose deletion did not remove it.              *)
OwnsLogo(n) == (game_pc = "logo" /\ n = del_id) \/ \E u \in GameUuids : row_id[u] = n

LogosOK == \A n \in logos : n = 0 \/ n \in left \/ OwnsLogo(n)

(* While game_delete runs the cache has forgotten its game, and once the   *)
(* row is gone only the logo is left.                                      *)
DeleteOK ==
  /\ game_pc \in {"row", "logo"} => ~Cached(del)
  /\ game_pc = "row" => row_id[del] = del_id
  /\ game_pc = "logo" => ~HasRow(del)
  /\ game_pc = "down" => vect = <<>> /\ \A u \in GameUuids : ~Cached(u)

RowKept ==
  game_pc # "down" => \A u \in GameUuids : HasRow(u) =>
    Cached(u) \/ u \in hidden \/ (game_pc = "row" /\ u = del)

GamesInv == GamesTypeOK /\ IdsOK /\ LogosOK /\ DeleteOK /\ RowKept /\ CacheMatchesRow /\ ListedOnce
-----------------------------------------------------------------------------
LEMMA BlankType == Blank \in Fields /\ AnyUuid \in GameUuids
<1>1. (CHOOSE v \in Values : TRUE) \in Values
  BY GamesAssumption
<1>2. AnyUuid \in GameUuids
  BY GamesAssumption DEF AnyUuid
<1> QED BY <1>1, <1>2 DEF Blank, Fields

LEMMA WrittenType ==
  ASSUME NEW old \in Fields, NEW new \in Fields, NEW n \in Nat
  PROVE  Written(old, new, n) \in Fields
BY DEF Written, Fields, Columns

LEMMA GamesInitInv == GamesInit => GamesInv
<1> SUFFICES ASSUME GamesInit PROVE GamesInv
  OBVIOUS
<1>1. GamesTypeOK
  BY BlankType DEF GamesInit, GamesTypeOK, Cached
<1>2. IdsOK /\ LogosOK /\ DeleteOK /\ RowKept /\ CacheMatchesRow /\ ListedOnce
  BY DEF GamesInit, IdsOK, LogosOK, DeleteOK, RowKept, CacheMatchesRow, ListedOnce, HasRow, Cached
<1> QED BY <1>1, <1>2 DEF GamesInv
-----------------------------------------------------------------------------
(* init: the rows and the chosen files, each in some order.                *)

LEMMA OrderType ==
  ASSUME NEW S, IsFiniteSet(S), NEW s \in Orders(S)
  PROVE  /\ s \in Seq(S) /\ Len(s) = Cardinality(S) /\ Cardinality(S) \in Nat
         /\ \A e \in S : \E k \in 1..Len(s) : s[k] = e
         /\ \A j, k \in 1..Len(s) : s[j] = s[k] => j = k
<1>1. Cardinality(S) \in Nat
  BY FS_CardinalityType
<1>2. s \in [1..Cardinality(S) -> S]
  BY DEF Orders, Bijection, Injection
<1>3. s \in Seq(S) /\ Len(s) = Cardinality(S)
  BY <1>1, <1>2
<1> QED BY <1>1, <1>3 DEF Orders, Bijection, Injection, Surjection, IsInjective

LEMMA RowsFinite == GamesTypeOK => IsFiniteSet(GameRows) /\ GameRows \subseteq Game
<1> SUFFICES ASSUME GamesTypeOK PROVE IsFiniteSet(GameRows) /\ GameRows \subseteq Game
  OBVIOUS
<1> DEFINE S == {v \in GameUuids : HasRow(v)}
           f == [u \in S |-> [uuid |-> u, id |-> row_id[u], fields |-> row[u]]]
<1>1. f \in Surjection(S, GameRows)
  BY DEF Surjection, GameRows
<1>2. IsFiniteSet(S)
  BY GamesAssumption, FS_Subset
<1>3. IsFiniteSet(GameRows)
  BY <1>1, <1>2, FS_Surjection
<1>4. GameRows \subseteq Game
  BY DEF GameRows, GamesTypeOK, Game
<1> QED BY <1>3, <1>4

LEMMA IndexOfIs ==
  ASSUME NEW s, NEW u, NEW k \in DOMAIN s, s[k].uuid = u,
         \A j \in DOMAIN s : s[j].uuid = u => j = k
  PROVE  IndexOf(s, u) = k
BY DEF IndexOf

LEMMA GamesStartStep ==
  ASSUME GamesInv, GamesStart
  PROVE  GamesInv'
<1> USE DEF GamesInv
<1>0. PICK C \in FromFiles : \E r \in Orders(GameRows), f \in Orders(C) : vect' = r \o f
  BY DEF GamesStart
<1>1. PICK r \in Orders(GameRows), f \in Orders(C) : vect' = r \o f
  BY <1>0
<1>2. C \subseteq FileGames /\ IsFiniteSet(C)
  BY <1>1, GamesAssumption, FS_Subset DEF FromFiles
<1>3. /\ r \in Seq(Game) /\ f \in Seq(Game) /\ vect' \in Seq(Game)
      /\ Len(vect') = Len(r) + Len(f) /\ Len(r) \in Nat /\ Len(f) \in Nat
  <2>1. r \in Seq(GameRows) /\ f \in Seq(C)
    BY <1>2, RowsFinite, OrderType
  <2>2. r \in Seq(Game) /\ f \in Seq(Game)
    BY <1>2, <2>1, RowsFinite, GamesAssumption
  <2> QED BY <1>1, <2>2
<1>4. \A k \in 1..Len(r) : vect'[k] = r[k] /\ r[k] \in GameRows
  BY <1>1, <1>3, RowsFinite, OrderType
<1>5. \A k \in 1..Len(vect') : k > Len(r) =>
        k - Len(r) \in 1..Len(f) /\ vect'[k] = f[k - Len(r)] /\ f[k - Len(r)] \in C
  <2>1. f \in Seq(C)
    BY <1>2, OrderType
  <2> QED BY <1>1, <1>3, <2>1
<1>6. ASSUME NEW e \in GameRows
      PROVE  e.uuid \in GameUuids /\ HasRow(e.uuid) /\ e.id = row_id[e.uuid] /\ e.fields = row[e.uuid]
  BY DEF GameRows
<1>7. ASSUME NEW e \in C PROVE e.uuid \in GameUuids /\ ~HasRow(e.uuid) /\ e.id = 0
  BY <1>2, GamesAssumption DEF FromFiles, FileIsNew, Game
<1>8. DOMAIN vect' = 1..Len(vect')
  BY <1>3
<1>9. ASSUME NEW j \in DOMAIN vect', NEW k \in DOMAIN vect', vect'[j].uuid = vect'[k].uuid
      PROVE  j = k
  <2>1. CASE j <= Len(r) /\ k <= Len(r)
    <3>1. r[j] \in GameRows /\ r[k] \in GameRows /\ r[j].uuid = r[k].uuid
      BY <1>3, <1>4, <1>8, <1>9, <2>1
    <3>2. r[j] = r[k]
      BY <3>1 DEF GameRows
    <3> QED BY <1>3, <1>8, <2>1, <3>2, RowsFinite, OrderType
  <2>2. CASE j > Len(r) /\ k > Len(r)
    <3>1. /\ f[j - Len(r)] \in C /\ f[k - Len(r)] \in C
          /\ f[j - Len(r)].uuid = f[k - Len(r)].uuid
          /\ j - Len(r) \in 1..Len(f) /\ k - Len(r) \in 1..Len(f)
      BY <1>5, <1>8, <1>9, <2>2
    <3>2. f[j - Len(r)] = f[k - Len(r)]
      BY <3>1 DEF FromFiles
    <3>3. j - Len(r) = k - Len(r)
      BY <1>2, <3>1, <3>2, OrderType
    <3> QED BY <1>3, <1>8, <3>3
  <2>3. CASE j <= Len(r) /\ k > Len(r)
    BY <1>3, <1>4, <1>5, <1>6, <1>7, <1>8, <1>9, <2>3
  <2>4. CASE j > Len(r) /\ k <= Len(r)
    BY <1>3, <1>4, <1>5, <1>6, <1>7, <1>8, <1>9, <2>4
  <2> QED BY <1>3, <1>8, <2>1, <2>2, <2>3, <2>4
<1>10. map' = [u \in GameUuids |-> IndexOf(vect', u)] /\ game_pc' = "idle"
       /\ UNCHANGED <<row_id, row, next_id, logos, del, del_id, game_faults, hidden, left, taken_back>>
       /\ game_pc = "down"
  BY DEF GamesStart, table, history
<1>11. ASSUME NEW u \in GameUuids, NEW k \in DOMAIN vect', vect'[k].uuid = u PROVE map'[u] = k
  <2>1. \A j \in DOMAIN vect' : vect'[j].uuid = u => j = k
    BY <1>9, <1>11
  <2>2. IndexOf(vect', u) = k
    BY <1>11, <2>1, IndexOfIs
  <2> QED BY <1>10, <2>2
<1>12. ASSUME NEW u \in GameUuids, map'[u] # 0
       PROVE  map'[u] \in DOMAIN vect' /\ vect'[map'[u]].uuid = u
  <2>1. IndexOf(vect', u) # 0
    BY <1>10, <1>12
  <2>2. PICK k \in DOMAIN vect' : vect'[k].uuid = u
    BY <2>1 DEF IndexOf
  <2> QED BY <1>11, <2>2
<1>13. ASSUME NEW u \in GameUuids, HasRow(u) PROVE map'[u] # 0
  <2> DEFINE e == [uuid |-> u, id |-> row_id[u], fields |-> row[u]]
  <2>1. e \in GameRows /\ e.uuid = u
    BY <1>13 DEF GameRows
  <2> HIDE DEF e
  <2>2. PICK k \in 1..Len(r) : r[k] = e
    BY <2>1, RowsFinite, OrderType
  <2>3. k \in DOMAIN vect' /\ vect'[k].uuid = u
    BY <1>3, <1>4, <1>8, <2>1, <2>2
  <2>4. map'[u] = k
    BY <1>11, <2>3
  <2> QED BY <2>2, <2>4
<1>14. ASSUME NEW k \in DOMAIN vect'
       PROVE  LET g == vect'[k] IN
              /\ g.uuid \in GameUuids /\ g.id = row_id[g.uuid] /\ (g.id # 0 => g.fields = row[g.uuid])
  <2>1. CASE k <= Len(r)
    <3>1. vect'[k] \in GameRows
      BY <1>3, <1>4, <1>8, <2>1
    <3> QED BY <1>6, <3>1
  <2>2. CASE k > Len(r)
    <3>1. vect'[k] \in C
      BY <1>5, <1>8, <2>2
    <3> QED BY <1>7, <3>1 DEF HasRow
  <2> QED BY <1>3, <1>8, <2>1, <2>2
<1>15. GamesTypeOK'
  <2>1. \A u \in GameUuids : map'[u] \in Nat
    <3> SUFFICES ASSUME NEW u \in GameUuids, map'[u] # 0 PROVE map'[u] \in Nat
      OBVIOUS
    <3> QED BY <1>3, <1>8, <1>12
  <2>2. map' \in [GameUuids -> Nat]
    BY <1>10, <2>1
  <2> QED BY <1>3, <1>10, <1>12, <2>2 DEF GamesTypeOK, Cached
<1>16. IdsOK' /\ LogosOK'
  <2>1. \A k \in DOMAIN vect' : vect'[k].id < next_id
    BY <1>14 DEF IdsOK
  <2>2. IdsOK'
    BY <1>10, <2>1 DEF IdsOK, WasGiven, HasRow
  <2>3. LogosOK'
    BY <1>10 DEF LogosOK, OwnsLogo
  <2> QED BY <2>2, <2>3
<1>17. DeleteOK' /\ RowKept'
  BY <1>10, <1>13 DEF DeleteOK, RowKept, Cached, HasRow
<1>18. CacheMatchesRow'
  BY <1>10, <1>12, <1>14 DEF CacheMatchesRow, Cached
<1>19. ListedOnce'
  <2> SUFFICES ASSUME NEW u \in GameUuids, NEW k \in DOMAIN vect', map'[u] # 0
               PROVE  /\ vect'[k].uuid = u => k <= map'[u]
                      /\ vect'[k].id = vect'[map'[u]].id /\ vect'[map'[u]].id # 0 => k = map'[u]
    BY DEF ListedOnce, Cached
  <2>1. vect'[k].uuid = u => k = map'[u]
    BY <1>11
  <2>2. ASSUME vect'[k].id = vect'[map'[u]].id, vect'[map'[u]].id # 0 PROVE k = map'[u]
    <3>1. row_id[vect'[k].uuid] = row_id[u] /\ row_id[u] # 0 /\ vect'[k].uuid \in GameUuids
      BY <1>12, <1>14, <2>2
    <3>2. vect'[k].uuid = u
      BY <3>1 DEF IdsOK, HasRow
    <3> QED BY <2>1, <3>2
  <2>3. k \in Nat
    BY <1>3, <1>8
  <2> QED BY <2>1, <2>2, <2>3
<1> QED BY <1>15, <1>16, <1>17, <1>18, <1>19
-----------------------------------------------------------------------------
(* The handlers.                                                           *)

LEMMA GamesCreateStep ==
  ASSUME GamesInv, NEW u \in GameUuids, NEW new \in Fields, GameCreate(u, new)
  PROVE  GamesInv'
<1> USE DEF GamesInv
<1> DEFINE g == [uuid |-> u, id |-> next_id, fields |-> new]
<1>1. /\ game_pc = "idle" /\ map[u] = 0 /\ row_id[u] = 0
      /\ row_id' = [row_id EXCEPT ![u] = next_id] /\ row' = [row EXCEPT ![u] = new]
      /\ next_id' = next_id + 1 /\ vect' = Append(vect, g)
      /\ map' = [map EXCEPT ![u] = Len(vect')]
      /\ UNCHANGED <<logos, game_pc, del, del_id, game_faults, hidden, left, taken_back>>
  BY DEF GameCreate, GamesServing, Cached, HasRow, ToMap, handler, history
<1>2. /\ vect \in Seq(Game) /\ g \in Game /\ next_id \in Nat /\ next_id > 0
      /\ Len(vect) \in Nat /\ Len(vect') = Len(vect) + 1 /\ DOMAIN vect' = 1..(Len(vect) + 1)
      /\ DOMAIN vect = 1..Len(vect)
      /\ vect'[Len(vect) + 1] = g /\ \A k \in 1..Len(vect) : vect'[k] = vect[k]
  BY <1>1 DEF GamesTypeOK, IdsOK, Game
<1>3. /\ map'[u] = Len(vect) + 1 /\ row_id'[u] = next_id /\ row'[u] = new
      /\ \A v \in GameUuids : v # u => map'[v] = map[v] /\ row_id'[v] = row_id[v] /\ row'[v] = row[v]
  BY <1>1, <1>2 DEF GamesTypeOK
<1>4. \A v \in GameUuids : map[v] # 0 => map[v] \in 1..Len(vect) /\ vect'[map[v]] = vect[map[v]]
  BY <1>2 DEF GamesTypeOK, Cached
<1>5. GamesTypeOK'
  <2>1. vect' \in Seq(Game) /\ map' \in [GameUuids -> Nat]
    BY <1>1, <1>2 DEF GamesTypeOK
  <2>2. row_id' \in [GameUuids -> Nat] /\ row' \in [GameUuids -> Fields] /\ next_id' \in Nat
    BY <1>1, <1>2 DEF GamesTypeOK
  <2>3. \A v \in GameUuids : map'[v] # 0 => map'[v] \in DOMAIN vect'
    BY <1>2, <1>3, <1>4
  <2> QED BY <1>1, <2>1, <2>2, <2>3 DEF GamesTypeOK, Cached
<1>6. IdsOK' /\ LogosOK'
  <2>0. \A n \in Nat : WasGiven(n) => WasGiven(n)'
    BY <1>1, <1>2 DEF WasGiven
  <2>1. \A v \in GameUuids : row_id'[v] < next_id'
    BY <1>1, <1>2, <1>3 DEF IdsOK, GamesTypeOK
  <2>2. \A v, w \in GameUuids : row_id'[v] = row_id'[w] /\ row_id'[v] # 0 => v = w
    BY <1>2, <1>3 DEF IdsOK, GamesTypeOK, HasRow
  <2>3. ASSUME NEW k \in DOMAIN vect'
        PROVE  vect'[k].id < next_id' \/ vect'[k].id \in taken_back'
    <3>1. CASE k = Len(vect) + 1
      BY <1>1, <1>2, <3>1
    <3>2. CASE k \in 1..Len(vect)
      <4>1. vect[k] \in Game /\ vect'[k] = vect[k]
        BY <1>2, <3>2
      <4>2. vect[k].id \in Nat /\ WasGiven(vect[k].id)
        BY <1>2, <3>2, <4>1 DEF IdsOK, Game
      <4> QED BY <1>1, <1>2, <4>1, <4>2 DEF WasGiven
    <3> QED BY <1>2, <3>1, <3>2
  <2>4. \A n \in logos' : WasGiven(n)'
    BY <1>1, <1>2, <2>0 DEF IdsOK, GamesTypeOK
  <2>5. LogosOK'
    <3> SUFFICES ASSUME NEW n \in logos, n # 0, n \notin left, ~(game_pc = "logo" /\ n = del_id)
                 PROVE  \E v \in GameUuids : row_id'[v] = n
      BY <1>1 DEF LogosOK, OwnsLogo
    <3>1. PICK v \in GameUuids : row_id[v] = n
      BY DEF LogosOK, OwnsLogo
    <3> QED BY <1>1, <1>3, <3>1
  <2> QED BY <1>1, <1>2, <2>1, <2>2, <2>3, <2>4, <2>5 DEF IdsOK, WasGiven, HasRow, GamesTypeOK
<1>7. DeleteOK' /\ RowKept'
  BY <1>1, <1>2, <1>3 DEF DeleteOK, RowKept, Cached, HasRow
<1>8. CacheMatchesRow'
  BY <1>2, <1>3, <1>4 DEF CacheMatchesRow, Cached
<1>9. ListedOnce'
  <2> SUFFICES ASSUME NEW v \in GameUuids, NEW k \in DOMAIN vect', map'[v] # 0
               PROVE  /\ vect'[k].uuid = v => k <= map'[v]
                      /\ vect'[k].id = vect'[map'[v]].id /\ vect'[map'[v]].id # 0 =>
                           k = map'[v] \/ vect'[map'[v]].id \in taken_back
    BY <1>1 DEF ListedOnce, Cached
  <2>1. CASE v = u
    <3>1. ASSUME k \in 1..Len(vect), vect'[k].id = next_id PROVE next_id \in taken_back
      BY <1>2, <3>1 DEF IdsOK, WasGiven, Game
    <3> QED BY <1>2, <1>3, <2>1, <3>1
  <2>2. CASE v # u /\ k \in 1..Len(vect)
    BY <1>2, <1>3, <1>4, <2>2 DEF ListedOnce, Cached
  <2>3. CASE v # u /\ k = Len(vect) + 1
    <3>0. map[v] \in 1..Len(vect) /\ vect[map[v]] \in Game
      BY <1>2, <1>3, <1>4, <2>3
    <3>1. vect[map[v]].id = row_id[v] /\ row_id[v] < next_id /\ row_id[v] \in Nat
      BY <1>3, <2>3 DEF IdsOK, CacheMatchesRow, Cached, GamesTypeOK
    <3> QED BY <1>2, <1>3, <1>4, <2>3, <3>1
  <2> QED BY <1>2, <2>1, <2>2, <2>3
<1> QED BY <1>5, <1>6, <1>7, <1>8, <1>9

LEMMA GamesUpdateStep ==
  ASSUME GamesInv, NEW u \in GameUuids, NEW new \in Fields, GameUpdate(u, new)
  PROVE  GamesInv'
<1> USE DEF GamesInv
<1> DEFINE m == map[u]
           old == vect[m].fields
<1>1. PICK n \in 0..NFields :
        /\ game_faults' = game_faults \/ GameFault
        /\ vect' = [vect EXCEPT ![m].fields = Written(old, new, n)]
        /\ row' = IF HasRow(u) THEN [row EXCEPT ![u] = Written(row[u], new, n)] ELSE row
  BY DEF GameUpdate, SetInCache
<1>2. m # 0 /\ UNCHANGED <<row_id, next_id, logos, map, game_pc, del, del_id, hidden, left, taken_back>>
  BY DEF GameUpdate, Cached, handler, history
<1>3. m \in DOMAIN vect /\ vect[m] \in Game /\ vect[m].uuid = u /\ vect[m].id = row_id[u]
  <2>1. m \in DOMAIN vect /\ vect \in Seq(Game)
    BY <1>2 DEF GamesTypeOK, Cached
  <2> QED BY <1>2, <2>1 DEF CacheMatchesRow, Cached
<1>4. n \in Nat /\ old \in Fields /\ Written(old, new, n) \in Fields /\ Written(row[u], new, n) \in Fields
  BY <1>3, WrittenType, GamesAssumption DEF Game, GamesTypeOK
<1>5. /\ vect' \in Seq(Game) /\ DOMAIN vect' = DOMAIN vect
      /\ vect'[m].fields = Written(old, new, n)
      /\ \A k \in DOMAIN vect : vect'[k].uuid = vect[k].uuid /\ vect'[k].id = vect[k].id
      /\ \A k \in DOMAIN vect : k # m => vect'[k] = vect[k]
  <2>1. vect \in Seq(Game) /\ DOMAIN vect = 1..Len(vect)
    BY DEF GamesTypeOK
  <2>2. [vect[m] EXCEPT !.fields = Written(old, new, n)] \in Game
    BY <1>3, <1>4 DEF Game
  <2> QED BY <1>1, <1>3, <2>1, <2>2 DEF Game
<1>6. game_faults' \in Nat /\ row' \in [GameUuids -> Fields]
  BY <1>1, <1>4 DEF GameFault, GamesTypeOK
<1>7. GamesTypeOK'
  BY <1>2, <1>5, <1>6 DEF GamesTypeOK, Cached
<1>8. IdsOK' /\ LogosOK' /\ DeleteOK' /\ RowKept' /\ ListedOnce'
  <2>1. IdsOK' /\ LogosOK' /\ RowKept'
    BY <1>2, <1>5 DEF IdsOK, WasGiven, LogosOK, OwnsLogo, RowKept, HasRow, Cached
  <2>2. DeleteOK'
    BY <1>2 DEF DeleteOK, HasRow, Cached, GameUpdate, GamesServing
  <2>3. ListedOnce'
    <3> SUFFICES ASSUME NEW v \in GameUuids, NEW k \in DOMAIN vect, map[v] # 0
                 PROVE  /\ vect'[k].uuid = v => k <= map[v]
                        /\ vect'[k].id = vect'[map[v]].id /\ vect'[map[v]].id # 0 =>
                             k = map[v] \/ vect'[map[v]].id \in taken_back
      BY <1>2, <1>5 DEF ListedOnce, Cached
    <3>1. map[v] \in DOMAIN vect
      BY DEF GamesTypeOK, Cached
    <3> QED BY <1>5, <3>1 DEF ListedOnce, Cached
  <2> QED BY <2>1, <2>2, <2>3
<1>9. CacheMatchesRow'
  <2> SUFFICES ASSUME NEW v \in GameUuids, map[v] # 0
               PROVE  LET g == vect'[map[v]] IN
                      g.uuid = v /\ g.id = row_id[v] /\ (g.id # 0 => g.fields = row'[v])
    BY <1>2 DEF CacheMatchesRow, Cached
  <2>1. map[v] \in DOMAIN vect /\ vect[map[v]].uuid = v /\ vect[map[v]].id = row_id[v]
        /\ (row_id[v] # 0 => vect[map[v]].fields = row[v])
    BY DEF GamesTypeOK, CacheMatchesRow, Cached
  <2>2. CASE v = u
    <3>1. row_id[u] # 0 => row'[u] = Written(row[u], new, n) /\ old = row[u]
      BY <1>1, <2>1, <2>2 DEF HasRow, GamesTypeOK
    <3> QED BY <1>5, <2>1, <2>2, <3>1
  <2>3. CASE v # u
    <3>1. map[v] # m /\ row'[v] = row[v]
      BY <1>1, <1>3, <2>1, <2>3 DEF GamesTypeOK
    <3> QED BY <1>5, <2>1, <3>1
  <2> QED BY <2>2, <2>3
<1> QED BY <1>7, <1>8, <1>9

LEMMA LogoStep ==
  ASSUME GamesInv, NEW u \in GameUuids, UpdateLogo(u)
  PROVE  GamesInv'
<1> USE DEF GamesInv
<1>1. /\ Cached(u) /\ logos' = logos \cup {vect[map[u]].id}
      /\ UNCHANGED <<row_id, row, next_id, vect, map, game_pc, del, del_id, game_faults, hidden, left, taken_back>>
  BY DEF UpdateLogo, table, cache, handler, history
<1>2. vect[map[u]].id = row_id[u] /\ row_id[u] < next_id /\ row_id[u] \in Nat
  BY <1>1 DEF CacheMatchesRow, IdsOK, GamesTypeOK
<1>3. GamesTypeOK' /\ IdsOK' /\ LogosOK'
  BY <1>1, <1>2 DEF GamesTypeOK, IdsOK, WasGiven, LogosOK, OwnsLogo, Cached, HasRow
<1> QED BY <1>1, <1>3 DEF DeleteOK, RowKept, CacheMatchesRow, ListedOnce, Cached, HasRow

LEMMA DeleteSteps ==
  ASSUME GamesInv, (\E u \in GameUuids : GameDelete(u)) \/ DeleteRefused \/ DeleteRow \/ DeleteLogo \/ GamesStop
  PROVE  GamesInv'
<1> USE DEF GamesInv, GamesTypeOK, IdsOK, WasGiven, LogosOK, OwnsLogo, DeleteOK, RowKept, CacheMatchesRow, ListedOnce, HasRow, Cached
<1>1. ASSUME NEW u \in GameUuids, GameDelete(u) PROVE GamesInv'
  <2>1. /\ game_pc = "idle" /\ game_pc' = "row" /\ del' = u /\ del_id' = row_id[u]
        /\ map' = [map EXCEPT ![u] = 0]
        /\ UNCHANGED <<row_id, row, next_id, logos, vect, game_faults, hidden, left, taken_back>>
    BY <1>1 DEF GameDelete, GamesServing, table, history
  <2>2. \A v \in GameUuids : map'[v] = IF v = u THEN 0 ELSE map[v]
    BY <2>1
  <2> QED BY <2>1, <2>2
<1>2. CASE DeleteRefused
  BY <1>2, BlankType DEF DeleteRefused, HandlerOver, GameFault, table, cache
<1>3. CASE DeleteRow
  <2>1. /\ game_pc = "row" /\ game_pc' = "logo" /\ row_id' = [row_id EXCEPT ![del] = 0]
        /\ row' = [row EXCEPT ![del] = Blank]
        /\ UNCHANGED <<next_id, logos, vect, map, del, del_id, game_faults, hidden, left, taken_back>>
    BY <1>3 DEF DeleteRow, cache, history
  <2>2. \A v \in GameUuids : row_id'[v] = IF v = del THEN 0 ELSE row_id[v]
    BY <2>1
  <2>3. \A v \in GameUuids : v # del => row'[v] = row[v]
    BY <2>1
  <2>4. row' \in [GameUuids -> Fields]
    BY <2>1, BlankType
  <2> QED BY <2>1, <2>2, <2>3, <2>4
<1>4. CASE DeleteLogo
  <2>1. /\ game_pc = "logo" /\ game_pc' = "idle" /\ hidden' = hidden \ {del}
        /\ \/ logos' = logos \ {del_id} /\ left' = left \ {del_id}
           \/ logos' = logos /\ left' = left \cup ({del_id} \cap logos)
        /\ game_faults' \in Nat /\ del' \in GameUuids /\ del_id' \in Nat
        /\ UNCHANGED <<row_id, row, next_id, vect, map, taken_back>>
    BY <1>4, BlankType DEF DeleteLogo, LogoNumber, LogoLeft, HandlerOver, GameFault, table, cache
  <2> QED BY <2>1
<1>5. CASE GamesStop
  <2>1. /\ game_pc' = "down" /\ vect' = <<>> /\ \A u \in GameUuids : map'[u] = 0
        /\ left' = IF game_pc = "logo" THEN left \cup ({del_id} \cap logos) ELSE left
        /\ game_faults' \in Nat /\ del' \in GameUuids /\ del_id' \in Nat /\ hidden' = {}
        /\ UNCHANGED <<row_id, row, next_id, logos, taken_back>>
    BY <1>5, BlankType DEF GamesStop, LogoLeft, HandlerOver, GameFault, table
  <2>2. map' \in [GameUuids -> Nat]
    BY <1>5 DEF GamesStop
  <2>3. LogosOK'
    BY <2>1
  <2> QED BY <2>1, <2>2, <2>3
<1> QED BY <1>1, <1>2, <1>3, <1>4, <1>5

(* The database is started again: the rows keep their numbers, and those   *)
(* after the last are free, as taken_back records.                         *)
LEMMA DatabaseRestartStep ==
  ASSUME GamesInv, GamesDatabaseRestart
  PROVE  GamesInv'
<1> USE DEF GamesInv
<1>1. PICK n \in 1..next_id :
        /\ \A u \in GameUuids : row_id[u] < n
        /\ next_id' = n /\ taken_back' = taken_back \cup n..(next_id - 1)
  BY DEF GamesDatabaseRestart
<1>2. /\ game_faults' \in Nat
      /\ UNCHANGED <<row_id, row, logos, vect, map, game_pc, del, del_id, hidden, left>>
  BY DEF GamesDatabaseRestart, GameFault, cache, handler, GamesTypeOK
<1>3. n \in Nat /\ next_id \in Nat /\ taken_back' \subseteq Nat /\ taken_back \subseteq taken_back'
  BY <1>1 DEF GamesTypeOK
<1>4. \A m \in Nat : WasGiven(m) => WasGiven(m)'
  BY <1>1, <1>3 DEF WasGiven
<1>5. GamesTypeOK'
  BY <1>1, <1>2, <1>3 DEF GamesTypeOK, Cached
<1>6. \A k \in DOMAIN vect : vect[k] \in Game /\ vect[k].id \in Nat
  <2>1. \A k \in DOMAIN vect : vect[k] \in Game
    BY DEF GamesTypeOK
  <2> QED BY <2>1 DEF Game
<1>7. \A k \in DOMAIN vect : WasGiven(vect[k].id)'
  <2> SUFFICES ASSUME NEW k \in DOMAIN vect PROVE WasGiven(vect[k].id)'
    OBVIOUS
  <2>1. vect[k].id \in Nat /\ WasGiven(vect[k].id)
    BY <1>6 DEF IdsOK
  <2> QED BY <1>1, <1>2, <1>3, <2>1 DEF WasGiven
<1>8. IdsOK' /\ LogosOK'
  BY <1>1, <1>2, <1>3, <1>4, <1>7 DEF IdsOK, WasGiven, LogosOK, OwnsLogo, HasRow, GamesTypeOK
<1>9. DeleteOK' /\ RowKept' /\ CacheMatchesRow'
  BY <1>2 DEF DeleteOK, RowKept, CacheMatchesRow, Cached, HasRow
<1>10. ListedOnce'
  BY <1>2, <1>3 DEF ListedOnce, Cached
<1> QED BY <1>5, <1>8, <1>9, <1>10

LEMMA GamesInvStep == GamesInv /\ [GamesNext]_gamesVars => GamesInv'
<1> SUFFICES ASSUME GamesInv, [GamesNext]_gamesVars PROVE GamesInv'
  OBVIOUS
<1>1. CASE UNCHANGED gamesVars
  BY <1>1 DEF gamesVars, table, cache, handler, history, GamesInv, GamesTypeOK, IdsOK, WasGiven, LogosOK,
              OwnsLogo, DeleteOK, RowKept,
              CacheMatchesRow, ListedOnce, HasRow, Cached
<1>2. CASE GamesNext
  BY <1>2, GamesStartStep, GamesCreateStep, GamesUpdateStep, LogoStep, DeleteSteps,
     DatabaseRestartStep DEF GamesNext
<1> QED BY <1>1, <1>2

LEMMA GamesHold == GamesSpec => []GamesInv
BY GamesInitInv, GamesInvStep, PTL DEF GamesSpec
-----------------------------------------------------------------------------
(* Cache, table and numbers are of their types; what is cached is listed.  *)
THEOREM GamesTypesHold == GamesSpec => []GamesTypeOK
BY GamesHold, PTL DEF GamesInv

(* The cache holds what the table holds, after refused updates, deletions  *)
(* and restarts.                                                           *)
THEOREM CacheAgrees == GamesSpec => []CacheMatchesRow
BY GamesHold, PTL DEF GamesInv

(* A game in the table is served unless its deletion was refused.          *)
THEOREM RowsAreServed == GamesSpec => []RowIsCached
<1>1. GamesInv => RowIsCached
  BY DEF GamesInv, RowKept, RowIsCached, GamesServing
<1> QED BY <1>1, GamesHold, PTL

(* findGame(int) finds the game that the map holds, whatever was removed,  *)
(* unless that game has the number of a removed one.                       *)
THEOREM LookupsAgree == GamesSpec => []ListedOnce
BY GamesHold, PTL DEF GamesInv

(* The three together: cache and table agree.                              *)
THEOREM CacheIsTrue == GamesSpec => []CacheTrue
BY CacheAgrees, RowsAreServed, LookupsAgree, PTL DEF CacheTrue

(* A new game is given the next number.  A logo of that name is of no game *)
(* and of no deletion at work, so it was left by one; and the number is    *)
(* not below the next, so a restart of the database freed it.              *)
THEOREM NewGamesHaveNoLogo == GamesSpec => NewGameHasNoLogo
<1> DEFINE OnlyLeft == \A u \in GameUuids : ~HasRow(u) /\ HasRow(u)' /\ row_id'[u] \in logos =>
                         row_id'[u] \in left \cap taken_back
<1>1. ASSUME GamesInv, [GamesNext]_gamesVars PROVE OnlyLeft
  <2> SUFFICES ASSUME NEW u \in GameUuids, row_id[u] = 0, row_id'[u] # 0, row_id'[u] \in logos
               PROVE  row_id'[u] \in left \cap taken_back
    BY DEF HasRow
  <2>1. CASE row_id' = row_id
    BY <2>1
  <2>2. CASE DeleteRow
    BY <1>1, <2>2 DEF DeleteRow, GamesInv, GamesTypeOK
  <2>3. ASSUME NEW v \in GameUuids, NEW new \in Fields, GameCreate(v, new)
        PROVE  row_id'[u] \in left \cap taken_back
    <3>1. row_id'[u] = next_id /\ game_pc = "idle"
      BY <1>1, <2>3 DEF GameCreate, GamesServing, GamesInv, GamesTypeOK
    <3>2. next_id > 0 /\ next_id \in Nat /\ \A w \in GameUuids : row_id[w] < next_id /\ row_id[w] \in Nat
      BY <1>1 DEF GamesInv, IdsOK, GamesTypeOK
    <3>3. next_id \in left
      BY <1>1, <3>1, <3>2 DEF GamesInv, LogosOK, OwnsLogo
    <3>4. next_id \in taken_back
      BY <1>1, <3>1, <3>2 DEF GamesInv, IdsOK, WasGiven
    <3> QED BY <3>1, <3>3, <3>4
  <2> QED BY <1>1, <2>1, <2>2, <2>3 DEF GamesNext, GamesStart, GamesStop, GamesDatabaseRestart, DeleteRefused,
           DeleteLogo, UpdateLogo, GameDelete, GameUpdate, gamesVars, table
<1>2. GamesInv /\ [GamesNext]_gamesVars => [OnlyLeft]_gamesVars
  BY <1>1
<1> QED BY <1>2, GamesHold, PTL DEF GamesSpec, NewGameHasNoLogo
=============================================================================
