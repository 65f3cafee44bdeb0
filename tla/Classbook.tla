----------------------------- MODULE Classbook -----------------------------
(* The classbook commands: a tree of articles, their localizations, and    *)
(* the changes users propose.  A table is a set of rows.                   *)
(*                                                                         *)
(* Only these handlers use the three tables and one thread runs them, so a *)
(* handler is one action; one with several statements takes the number     *)
(* done before a statement is refused or the process ends.  Names and the  *)
(* columns ordered and parentuuid are left out, texts are ones the columns *)
(* hold, and ids are given once (the database server is not restarted).    *)
EXTENDS Naturals, Sequences, FiniteSets, SequencesExt

CONSTANTS
  Uuids,          \* uuids an administrator chooses for an article
  Langs, English, \* languages, and the one the articles are in
  Texts,
  PathRounds,     \* how far classbook_info follows parents: 5 in the code
  MaxArticles, MaxLocals, MaxProposals,   \* bounds: rows ever inserted
  MaxRequests     \* bound: commands that change a table

ASSUME ClassbookAssumption ==
  /\ English \in Langs /\ Uuids \cap Nat = {} /\ PathRounds \in Nat
  /\ MaxArticles \in Nat /\ MaxLocals \in Nat /\ MaxProposals \in Nat /\ MaxRequests \in Nat

VARIABLES
  articles, locals, proposals,   \* classbook, classbook_localization, classbook_proposal
  next,                          \* their auto_increments
  listing,                       \* whether the thread is in classbook_proposal_list's loop
  requests

tables == <<articles, locals, proposals, next>>
classbookVars == <<tables, listing, requests>>

(* A hash is known by the text it was made from.                           *)
Md5(text) == <<"md5", text>>
Hashes == {Md5(t) : t \in Texts}
Ids == 0..MaxArticles   \* the numbers a request may give for an article

Article == [id : Nat \ {0}, parentid : Nat, uuid : Uuids \cup Nat, content : Texts, md5_content : Hashes]
Local == [id : Nat \ {0}, classbookid : Nat, lang : Langs, content : Texts, md5_content : Hashes]
Proposal == [id : Nat \ {0}, classbookid : Nat, lang : Langs, content : Texts,
             content_before : Texts, md5_content : Hashes]

(* A row whose text and its hash are overwritten.                          *)
WithText(r, text) == [r EXCEPT !.content = text, !.md5_content = Md5(text)]

HasArticle(a) == \E r \in articles : r.id = a
Children(a) == {r \in articles : r.parentid = a}
ClassbookServing == listing = "no" /\ requests < MaxRequests /\ requests' = requests + 1

ClassbookInit ==
  /\ articles = {} /\ locals = {} /\ proposals = {}
  /\ next = [article |-> 1, local |-> 1, proposal |-> 1]
  /\ listing = "no" /\ requests = 0
-----------------------------------------------------------------------------
(* classbook_add_record.  With no uuid given one is made, different from   *)
(* every other: here the number of the article.                            *)
ParentAllowedUnasked(p) == p \in Ids
UuidIsFreeAtRoot(u) == \A r \in Children(0) : r.uuid # u

ParentAllowed(p) == p # 0 => HasArticle(p)
UuidIsFree(u) == \A r \in articles : r.uuid # u

AddRecord(p, u, text) ==
  /\ ClassbookServing /\ next.article <= MaxArticles
  /\ ParentAllowed(p)
  /\ u \in Uuids => UuidIsFree(u)
  /\ articles' = articles \cup
       {[id |-> next.article, parentid |-> p, uuid |-> IF u \in Uuids THEN u ELSE next.article,
         content |-> text, md5_content |-> Md5(text)]}
  /\ next' = [next EXCEPT !.article = next.article + 1]
  /\ UNCHANGED <<locals, proposals, listing>>

(* classbook_delete_record: the article, then its localizations; both      *)
(* DELETEs are carried out also when there is no such article.  Its        *)
(* proposals stay.                                                         *)
MayDelete(a) == a # 0 /\ Children(a) = {}

DeleteRecord(a, done) ==
  /\ ClassbookServing /\ MayDelete(a)
  /\ articles' = IF done >= 1 THEN {r \in articles : r.id # a} ELSE articles
  /\ locals' = IF done >= 2 THEN {l \in locals : l.classbookid # a} ELSE locals
  /\ UNCHANGED <<proposals, next, listing>>

(* classbook_update_record, which wants all its optional parameters; the   *)
(* new parent may be the article or below it.                              *)
Rewritten(a, text) ==
  {IF r.id = a THEN WithText(r, text) ELSE r : r \in articles}
WithParent(r, p) == [r EXCEPT !.parentid = p]
Moved(a, p) == {IF r.id = a THEN WithParent(r, p) ELSE r : r \in articles}
MovedAndRewritten(a, p, text) ==
  {IF r.id = a THEN WithText(WithParent(r, p), text) ELSE r : r \in articles}

UpdateRecord(a, p, text, done) ==
  /\ ClassbookServing /\ HasArticle(a) /\ ParentAllowed(p)
  /\ articles' = IF done = 0 THEN articles
                 ELSE IF done = 1 THEN Moved(a, p)
                 ELSE MovedAndRewritten(a, p, text)
  /\ UNCHANGED <<locals, proposals, next, listing>>
-----------------------------------------------------------------------------
(* The localizations; whether the article exists is not asked.             *)
IsLocalized(a, lang) == \E l \in locals : l.classbookid = a /\ l.lang = lang

AddLocalization(a, lang, text) ==
  /\ ClassbookServing /\ next.local <= MaxLocals
  /\ ~IsLocalized(a, lang)
  /\ locals' = locals \cup
       {[id |-> next.local, classbookid |-> a, lang |-> lang, content |-> text, md5_content |-> Md5(text)]}
  /\ next' = [next EXCEPT !.local = next.local + 1]
  /\ UNCHANGED <<articles, proposals, listing>>

DeleteLocalization(l) ==
  /\ ClassbookServing /\ l \in locals
  /\ locals' = locals \ {l}
  /\ UNCHANGED <<articles, proposals, next, listing>>

UpdateLocalization(l, text) ==
  /\ ClassbookServing /\ l \in locals
  /\ locals' = (locals \ {l}) \cup {WithText(l, text)}
  /\ UNCHANGED <<articles, proposals, next, listing>>
-----------------------------------------------------------------------------
(* classbook_proposal_add_record.  What it keeps as the text before is the *)
(* article's in English, and in another language that of any localization  *)
(* in it: the SELECT does not say which article.                           *)
Before(a, lang) ==
  IF lang = English THEN {r \in articles : r.id = a} ELSE {l \in locals : l.lang = lang}

AddProposal(a, lang, text) ==
  /\ ClassbookServing /\ next.proposal <= MaxProposals
  /\ \E b \in Before(a, lang) :
       proposals' = proposals \cup
         {[id |-> next.proposal, classbookid |-> a, lang |-> lang, content |-> text,
           content_before |-> b.content, md5_content |-> Md5(text)]}
  /\ next' = [next EXCEPT !.proposal = next.proposal + 1]
  /\ UNCHANGED <<articles, locals, listing>>

DeleteProposal(q) ==
  /\ ClassbookServing /\ q \in proposals
  /\ proposals' = proposals \ {q}
  /\ UNCHANGED <<articles, locals, next, listing>>

Reworded(q, text) ==
  (proposals \ {q}) \cup {WithText(q, text)}

UpdateProposal(q, text) ==
  /\ ClassbookServing /\ q \in proposals
  /\ proposals' = Reworded(q, text)
  /\ UNCHANGED <<articles, locals, next, listing>>

(* classbook_propasal_approve writes to the article whatever the language, *)
(* if there still is one, and keeps the proposal.                          *)
ApproveProposal(q) ==
  /\ ClassbookServing /\ q \in proposals
  /\ articles' = Rewritten(q.classbookid, q.content)
  /\ UNCHANGED <<locals, proposals, next, listing>>

(* classbook_proposal_list: the loop over the filters of the query does    *)
(* not move its iterator; a round only clears bFirst.                      *)
ListProposals(a) ==
  /\ ClassbookServing /\ HasArticle(a)
  /\ listing' = "first"
  /\ UNCHANGED tables

NextRound(at) == "again"

ListingRound ==
  /\ listing # "no" /\ listing' = NextRound(listing)
  /\ UNCHANGED <<tables, requests>>

(* The process is killed and started again.                                *)
Restart ==
  /\ listing # "no" /\ listing' = "no"
  /\ UNCHANGED <<tables, requests>>
-----------------------------------------------------------------------------
ArticleStep ==
  \/ \E p \in Ids, u \in Uuids \cup {0}, text \in Texts : AddRecord(p, u, text)
  \/ \E a \in Ids, done \in 0..2 : DeleteRecord(a, done)
  \/ \E a \in Ids, p \in Ids, text \in Texts, done \in 0..2 : UpdateRecord(a, p, text, done)

LocalStep ==
  \/ \E a \in Ids, lang \in Langs, text \in Texts : AddLocalization(a, lang, text)
  \/ \E l \in locals : DeleteLocalization(l) \/ \E text \in Texts : UpdateLocalization(l, text)

ProposalStep ==
  \/ \E a \in Ids, lang \in Langs, text \in Texts : AddProposal(a, lang, text)
  \/ \E q \in proposals : \/ DeleteProposal(q) \/ ApproveProposal(q)
                          \/ \E text \in Texts : UpdateProposal(q, text)
  \/ \E a \in Ids : ListProposals(a)

Serve == ArticleStep \/ LocalStep \/ ProposalStep
ClassbookNext == Serve \/ ListingRound \/ Restart

ClassbookSpec == ClassbookInit /\ [][ClassbookNext]_classbookVars

(* The thread goes on with the request it is serving.                      *)
ClassbookFairSpec == ClassbookSpec /\ WF_classbookVars(ListingRound)
-----------------------------------------------------------------------------
(* The parents classbook_info answers with: it goes up at most PathRounds  *)
(* times and passes over an article it has, or was asked about, already.   *)
NotFound == <<0, 404>>   \* the answer in place of a path; no path goes on after the root
ParentOf(a) == (CHOOSE r \in articles : r.id = a).parentid
FreshOfPath(a, path, up) == \A i \in DOMAIN path : path[i] # up

Fresh(a, path, up) == up # a /\ \A i \in DOMAIN path : path[i] # up

PathRound(a, path) ==
  LET at == IF path = <<>> THEN a ELSE Last(path)
      up == ParentOf(at)
  IN  IF path = NotFound \/ at = 0 THEN path
      ELSE IF up = 0 THEN Append(path, 0)
      ELSE IF ~HasArticle(up) THEN NotFound
      ELSE IF Fresh(a, path, up) THEN Append(path, up) ELSE path

InfoPath(a) ==
  LET path[n \in 0..PathRounds] == IF n = 0 THEN <<>> ELSE PathRound(a, path[n - 1])
  IN  path[PathRounds]
-----------------------------------------------------------------------------
(* Types; the numbers given are below the auto_increments, each to one row. *)
ClassbookTypeOK ==
  /\ articles \subseteq Article /\ locals \subseteq Local /\ proposals \subseteq Proposal
  /\ next \in [article : Nat \ {0}, local : Nat \ {0}, proposal : Nat \ {0}]
  /\ listing \in {"no", "first", "again"} /\ requests \in 0..MaxRequests
  /\ \A r \in articles : r.id < next.article
  /\ \A l \in locals : l.id < next.local
  /\ \A q \in proposals : q.id < next.proposal
  /\ \A r, s \in articles : r.id = s.id => r = s
  /\ \A r, s \in locals : r.id = s.id => r = s
  /\ \A r, s \in proposals : r.id = s.id => r = s

(* The parent of an article is the root or an article: adding and moving   *)
(* look for the parent, and deleting looks for children, in statements of  *)
(* their own, with any of the others refused.                              *)
ParentExists == \A r \in articles : r.parentid = 0 \/ HasArticle(r.parentid)

(* No two articles have one uuid, whether chosen or made by the server.    *)
UuidsDistinct == \A r, s \in articles : r.uuid = s.uuid => r = s

(* An article has at most one localization in a language, though the table *)
(* has no index that says so, and rows of deleted articles may stay.       *)
OneLocalPerLang ==
  \A l, m \in locals : l.classbookid = m.classbookid /\ l.lang = m.lang => l = m

(* md5_content is the hash of the content in each of the three tables:     *)
(* seven handlers write the two columns.                                   *)
HashesMatch == \A r \in articles \cup locals \cup proposals : r.md5_content = Md5(r.content)

(* What the tables themselves do not keep: the two keys, for which there   *)
(* is no index and the handlers look before they insert, and the hashes.   *)
RowsTrue == UuidsDistinct /\ OneLocalPerLang /\ HashesMatch

(* Whatever moves made of the tree, classbook_info finds every article on  *)
(* the way up: its path is the chain of parents, without repetition, and   *)
(* ends only at the root, before a repetition, or after PathRounds.        *)
PathIsAncestors ==
  \A r \in articles :
    LET path == InfoPath(r.id)
        n == Len(path)
        chain == <<r.id>> \o path
    IN  /\ n <= PathRounds
        /\ \A i \in 1..n : path[i] = ParentOf(chain[i])
        /\ \A i, j \in 1..(n + 1) : chain[i] = chain[j] => i = j
        /\ n = PathRounds \/ Last(chain) = 0 \/ \E i \in 1..(n + 1) : chain[i] = ParentOf(Last(chain))

(* "Display list of proposals by classbookid": a client that asks for the  *)
(* proposals of an article is answered, in that the loop ends.             *)
ListingEnds == (listing # "no") ~> (listing = "no")
=============================================================================
