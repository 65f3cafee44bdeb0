---------------------------- MODULE UsefulLinks ----------------------------
(* The useful_links commands: the links, and for each the users' favorites *)
(* and comments and the tags, in tables of their own.  Three columns of a  *)
(* link repeat what these tables hold, and useful_links_list shows and     *)
(* sorts by the columns only.                                              *)
(*                                                                         *)
(* Only these handlers use the four tables and one thread runs them, so a  *)
(* handler is one action, with the number of statements done before one is *)
(* refused or the process ends.  No table but for its id has an index, and *)
(* a number is given once (the database server is not restarted).  url,    *)
(* description and the texts of comments are left out; a tag has no comma  *)
(* in it and fits the column.                                              *)
EXTENDS Naturals, FiniteSets, Functions

CONSTANTS
  LinkUsers, LinkTags,
  MaxLinks, MaxComments,   \* bounds: rows ever inserted
  MaxLinkRequests          \* bound: commands that change a table

LinkIds == 1..MaxLinks     \* the numbers a request may give for a link

ASSUME LinksAssumption ==
  IsFiniteSet(LinkUsers) /\ MaxLinks \in Nat /\ MaxComments \in Nat /\ MaxLinkRequests \in Nat

VARIABLES
  links,             \* useful_links: the numbers of the links there are
  shown,             \* and the columns of each
  favorites,         \* rows of useful_links_user_favorites, by link and user
  tagged,            \* rows of useful_links_tags, by link and tag
  comments,          \* the link of each comment, 0: there is no such comment
  next_link, next_comment,
  link_requests,
  off                \* auxiliary: the columns no recount has put right yet

linkCounters == <<next_link, next_comment>>
linksVars == <<links, shown, favorites, tagged, comments, linkCounters, link_requests, off>>

Kinds == {"favorites", "tags", "comments"}
NewLink == [favorites |-> 0, tags |-> {}, comments |-> 0, clicks |-> 0]

LinksInit ==
  /\ links = {} /\ shown = [l \in LinkIds |-> NewLink]
  /\ favorites = [l \in LinkIds |-> [u \in LinkUsers |-> 0]]
  /\ tagged = [l \in LinkIds |-> [t \in LinkTags |-> 0]]
  /\ comments = [c \in 1..MaxComments |-> 0]
  /\ next_link = 1 /\ next_comment = 1 /\ link_requests = 0 /\ off = {}

LinkServing == link_requests < MaxLinkRequests /\ link_requests' = link_requests + 1
-----------------------------------------------------------------------------
(* What the subqueries and the loops over a SELECT make of the rows.       *)
TotalOf(byUser) == SumFunction(byUser)
TagsOf(byTag) == {t \in DOMAIN byTag : byTag[t] > 0}
CommentsOf(rows, l) == Cardinality({c \in DOMAIN rows : rows[c] = l})

(* A handler that changes rows of one link and then its column of that     *)
(* kind: the column is right after, or not yet when it did not get there.  *)
Recounted(l, k, done) ==
  off' = IF done = 2 THEN off \ {<<l, k>>} ELSE IF l \in links THEN off \cup {<<l, k>>} ELSE off

(* The UPDATE of a column matches no row when there is no link.            *)
WithFavorites(l, n) == IF l \in links THEN [shown EXCEPT ![l].favorites = n] ELSE shown
WithTags(l, tags) == IF l \in links THEN [shown EXCEPT ![l].tags = tags] ELSE shown
WithComments(l, n) == IF l \in links THEN [shown EXCEPT ![l].comments = n] ELSE shown
-----------------------------------------------------------------------------
(* useful_links_add.  Rows may be there already: no handler asks whether   *)
(* the link it is given exists.                                            *)
EarlyRows(l) ==
  {k \in Kinds : \/ k = "favorites" /\ TotalOf(favorites[l]) # 0
                 \/ k = "tags" /\ TagsOf(tagged[l]) # {}
                 \/ k = "comments" /\ CommentsOf(comments, l) # 0}

LinkAdd ==
  /\ LinkServing /\ next_link <= MaxLinks
  /\ links' = links \cup {next_link} /\ next_link' = next_link + 1
  /\ off' = off \cup {<<next_link, k>> : k \in EarlyRows(next_link)}
  /\ UNCHANGED <<shown, favorites, tagged, comments, next_comment>>

(* useful_links_delete: the link, its comments, favorites and tags; not    *)
(* asked whether there is such a link.                                     *)
WithoutCommentsById(l) == [comments EXCEPT ![l] = 0]

WithoutComments(l) == [c \in DOMAIN comments |-> IF comments[c] = l THEN 0 ELSE comments[c]]

LinkDelete(l, done) ==
  /\ LinkServing
  /\ links' = links \ {l} /\ shown' = [shown EXCEPT ![l] = NewLink]
  /\ comments' = IF done >= 2 THEN WithoutComments(l) ELSE comments
  /\ favorites' = IF done >= 3 THEN [favorites EXCEPT ![l] = [u \in LinkUsers |-> 0]] ELSE favorites
  /\ tagged' = IF done = 4 THEN [tagged EXCEPT ![l] = [t \in LinkTags |-> 0]] ELSE tagged
  /\ off' = off \ {<<l, k>> : k \in Kinds}
  /\ UNCHANGED linkCounters

(* useful_links_clicked.                                                   *)
Clicked(l) ==
  /\ LinkServing /\ l \in links
  /\ shown' = [shown EXCEPT ![l].clicks = shown[l].clicks + 1]
  /\ UNCHANGED <<links, favorites, tagged, comments, linkCounters, off>>
-----------------------------------------------------------------------------
(* useful_links_user_favorite and _unfavorite.                             *)
IsFavorite(l, u) == favorites[l][u] > 0

Favorite(l, u, done) ==
  /\ LinkServing /\ ~IsFavorite(l, u)
  /\ favorites' = [favorites EXCEPT ![l][u] = favorites[l][u] + 1]
  /\ shown' = IF done = 2 THEN WithFavorites(l, TotalOf(favorites'[l])) ELSE shown
  /\ Recounted(l, "favorites", done)
  /\ UNCHANGED <<links, tagged, comments, linkCounters>>

Unfavorite(l, u, done) ==
  /\ LinkServing
  /\ favorites' = [favorites EXCEPT ![l][u] = 0]
  /\ shown' = IF done = 2 THEN WithFavorites(l, TotalOf(favorites'[l])) ELSE shown
  /\ Recounted(l, "favorites", done)
  /\ UNCHANGED <<links, tagged, comments, linkCounters>>

(* useful_links_tag_add and _tag_delete: the SELECT between the two others *)
(* changes nothing when it is refused.                                     *)
TagAdd(l, t, done) ==
  /\ LinkServing /\ tagged[l][t] = 0
  /\ tagged' = [tagged EXCEPT ![l][t] = tagged[l][t] + 1]
  /\ shown' = IF done = 2 THEN WithTags(l, TagsOf(tagged'[l])) ELSE shown
  /\ Recounted(l, "tags", done)
  /\ UNCHANGED <<links, favorites, comments, linkCounters>>

TagDelete(l, t, done) ==
  /\ LinkServing /\ tagged[l][t] > 0
  /\ tagged' = [tagged EXCEPT ![l][t] = 0]
  /\ shown' = IF done = 2 THEN WithTags(l, TagsOf(tagged'[l])) ELSE shown
  /\ Recounted(l, "tags", done)
  /\ UNCHANGED <<links, favorites, comments, linkCounters>>

(* useful_links_comment_add and _comment_delete, which any user may; the   *)
(* notice and the mail of the first are in other modules.                  *)
CommentAdd(l, done) ==
  /\ LinkServing /\ next_comment <= MaxComments
  /\ comments' = [comments EXCEPT ![next_comment] = l] /\ next_comment' = next_comment + 1
  /\ shown' = IF done = 2 THEN WithComments(l, CommentsOf(comments', l)) ELSE shown
  /\ Recounted(l, "comments", done)
  /\ UNCHANGED <<links, favorites, tagged, next_link>>

LinkOfComment(c) == comments[c]

CommentDelete(c, done) ==
  /\ LinkServing /\ comments[c] # 0
  /\ comments' = [comments EXCEPT ![c] = 0]
  /\ shown' = IF done = 2 THEN WithComments(LinkOfComment(c), CommentsOf(comments', LinkOfComment(c))) ELSE shown
  /\ Recounted(comments[c], "comments", done)
  /\ UNCHANGED <<links, favorites, tagged, linkCounters>>
-----------------------------------------------------------------------------
LinksNext ==
  \/ LinkAdd
  \/ \E l \in LinkIds, done \in 1..4 : LinkDelete(l, done)
  \/ \E l \in LinkIds : Clicked(l)
  \/ \E l \in LinkIds, u \in LinkUsers, done \in 1..2 : Favorite(l, u, done) \/ Unfavorite(l, u, done)
  \/ \E l \in LinkIds, t \in LinkTags, done \in 1..2 : TagAdd(l, t, done) \/ TagDelete(l, t, done)
  \/ \E l \in LinkIds, done \in 1..2 : CommentAdd(l, done)
  \/ \E c \in 1..MaxComments, done \in 1..2 : CommentDelete(c, done)

LinksSpec == LinksInit /\ [][LinksNext]_linksVars
-----------------------------------------------------------------------------
LinksTypeOK ==
  /\ links \subseteq LinkIds
  /\ shown \in [LinkIds -> [favorites : Nat, tags : SUBSET LinkTags, comments : Nat, clicks : Nat]]
  /\ favorites \in [LinkIds -> [LinkUsers -> Nat]] /\ tagged \in [LinkIds -> [LinkTags -> Nat]]
  /\ comments \in [1..MaxComments -> 0..MaxLinks]
  /\ next_link \in 1..(MaxLinks + 1) /\ next_comment \in 1..(MaxComments + 1)
  /\ link_requests \in 0..MaxLinkRequests /\ off \subseteq links \X Kinds

(* A user has a link among the favorites at most once, and a link a tag.   *)
LinkRowsOnce ==
  \A l \in LinkIds : /\ \A u \in LinkUsers : favorites[l][u] <= 1
                     /\ \A t \in LinkTags : tagged[l][t] <= 1

(* The columns of a link are what its rows make, except where a handler    *)
(* was refused before its last statement, or rows were there before the    *)
(* link, and no later one has recounted.                                   *)
LinkColumnsExact ==
  \A l \in links :
    /\ shown[l].favorites = TotalOf(favorites[l]) \/ <<l, "favorites">> \in off
    /\ shown[l].tags = TagsOf(tagged[l]) \/ <<l, "tags">> \in off
    /\ shown[l].comments = CommentsOf(comments, l) \/ <<l, "comments">> \in off

(* What useful_links_list shows of a link is what its favorites, tags and  *)
(* comments are, each counted once (the six handlers that change a row and *)
(* then the column).                                                       *)
LinkColumnsTrue == LinkRowsOnce /\ LinkColumnsExact
=============================================================================
