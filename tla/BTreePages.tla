----------------------------- MODULE BTreePages -----------------------------
(***************************************************************************)
(* The pages of the B+ tree and the descent to a leaf.  The tree's own     *)
(* insert and delete are not written yet; the pages are used here as the   *)
(* comments of their operations say they are meant to be (insert, then     *)
(* split what is full, bottom up; merge with the left sibling and remove   *)
(* the child from the parent).                                             *)
(*                                                                         *)
(* A page is a sequence of entries with a key each, and a value or a       *)
(* child; the key of an internal page's first entry is not used.           *)
(***************************************************************************)
EXTENDS Integers, Sequences

CONSTANTS
    Keys,
    LeafMax,        \* LeafPage::MAX_SIZE
    InternalMax,    \* InternalPage::MAX_SIZE
    MaxPages        \* capacity of the SimplePageManager

VARIABLES
    pages,          \* a sequence: the page manager's, ids are its indices
    root,           \* root_page_id_, 0: INVALID_PAGE_ID
    full,           \* the page that has to be split next, or 0
    stored          \* the keys in the tree

treeVars == <<pages, root, full, stored>>

Leaf(entries, next) == [leaf |-> TRUE, entries |-> entries, next |-> next]
Internal(entries) == [leaf |-> FALSE, entries |-> entries, next |-> 0]
Entry(key, child) == [key |-> key, child |-> child]
Size(id) == Len(pages[id].entries)
First(s, n) == SubSeq(s, 1, n)
From(s, n) == SubSeq(s, n, Len(s))

-----------------------------------------------------------------------------
\* std::lower_bound(): the first index whose key is not below.
LowerBound(entries, key) ==
    CHOOSE i \in 1 .. Len(entries) + 1 :
        /\ \A j \in 1 .. i - 1 : entries[j].key < key
        /\ i <= Len(entries) => entries[i].key >= key

FoundAt(entries, i, key) == i <= Len(entries) /\ entries[i].key = key

\* LeafPage::Lookup(), Insert() and Remove().
LeafLookup(id, key) ==
    LET entries == pages[id].entries IN FoundAt(entries, LowerBound(entries, key), key)

LeafInsert(entries, key) ==
    LET i == LowerBound(entries, key) IN
    First(entries, i - 1) \o <<Entry(key, 0)>> \o From(entries, i)

LeafRemove(entries, key) ==
    LET i == LowerBound(entries, key) IN First(entries, i - 1) \o From(entries, i + 1)

\* cmp(array_[mid].first, key) <= 0
NotAbove(separator, key) == separator <= key

\* InternalPage::Lookup(): binary search without the first key.
ChildFor(id, key) ==
    LET entries == pages[id].entries
        \* lo and hi count from 0, as in the code
        Search[range \in (1 .. Len(entries)) \X (1 .. Len(entries))] ==
            LET lo == range[1]  hi == range[2]  mid == lo + (hi - lo) \div 2 IN
            IF lo >= hi THEN lo
            ELSE IF NotAbove(entries[mid + 1].key, key) THEN Search[<<mid + 1, hi>>]
            ELSE Search[<<lo, mid>>]
    IN entries[Search[<<1, Len(entries)>>]].child

\* FindLeafPage().
FindLeaf(key) ==
    LET Down[id \in 1 .. Len(pages)] == IF pages[id].leaf THEN id ELSE Down[ChildFor(id, key)]
    IN Down[root]

\* InternalPage::InsertNodeAfter() and RemoveChild().
IndexOf(entries, child) == CHOOSE i \in DOMAIN entries : entries[i].child = child

InsertNodeAfter(entries, old, key, new) ==
    LET i == IndexOf(entries, old) IN
    First(entries, i) \o <<Entry(key, new)>> \o From(entries, i + 1)

RemoveChild(entries, child) ==
    LET i == IndexOf(entries, child) IN First(entries, i - 1) \o From(entries, i + 1)

-----------------------------------------------------------------------------
Half(id) == Size(id) \div 2
New == Len(pages) + 1

\* Mutated form: the old page keeps its place in the list.
SplitLeafUnlinked(id) ==
    LET page == pages[id] IN
    [left  |-> Leaf(First(page.entries, Half(id)), page.next),
     right |-> Leaf(From(page.entries, Half(id) + 1), page.next),
     key   |-> page.entries[Half(id) + 1].key]

\* LeafPage::MoveHalfTo(): the key stays, and is copied to the parent.
SplitLeaf(id) ==
    LET page == pages[id] IN
    [left  |-> Leaf(First(page.entries, Half(id)), New),
     right |-> Leaf(From(page.entries, Half(id) + 1), page.next),
     key   |-> page.entries[Half(id) + 1].key]

\* InternalPage::MoveHalfTo(): the key of the middle moves to the parent.
SplitInternal(id) ==
    LET page == pages[id] IN
    [left  |-> Internal(First(page.entries, Half(id))),
     right |-> Internal(From(page.entries, Half(id) + 1)),
     key   |-> page.entries[Half(id) + 1].key]

\* A root, of a leaf without entries.
TreeInit ==
    /\ pages = <<Leaf(<<>>, 0)>> /\ root = 1 /\ full = 0 /\ stored = {}

Max(id) == IF pages[id].leaf THEN LeafMax ELSE InternalMax

\* Insert first, then look whether the page is full.
Insert(key) ==
    /\ full = 0
    /\ LET id == FindLeaf(key) IN
       IF LeafLookup(id, key) THEN UNCHANGED treeVars
       ELSE /\ pages' = [pages EXCEPT ![id].entries = LeafInsert(@, key)]
            /\ full' = IF Size(id) + 1 >= LeafMax THEN id ELSE 0
            /\ stored' = stored \cup {key} /\ UNCHANGED root

Parent(id) == CHOOSE p \in 1 .. Len(pages) :
    ~pages[p].leaf /\ id \in {pages[p].entries[i].child : i \in DOMAIN pages[p].entries}

\* The full page moves half of its entries to a new one, of which the parent
\* hears; the root gets a parent.
Split ==
    /\ full # 0 /\ Len(pages) + 2 <= MaxPages
    /\ LET halves == IF pages[full].leaf THEN SplitLeaf(full) ELSE SplitInternal(full)
           grown == Append([pages EXCEPT ![full] = halves.left], halves.right)
       IN IF full = root
          THEN /\ pages' = Append(grown, Internal(<<Entry(0, full), Entry(halves.key, New)>>))
               /\ root' = New + 1 /\ full' = 0
          ELSE LET p == Parent(full) IN
               /\ pages' = [grown EXCEPT ![p].entries = InsertNodeAfter(@, full, halves.key, New)]
               /\ full' = IF Size(p) + 1 >= InternalMax THEN p ELSE 0
               /\ UNCHANGED root
    /\ UNCHANGED stored

Remove(key) ==
    /\ full = 0
    /\ LET id == FindLeaf(key) IN
       /\ LeafLookup(id, key)
       /\ pages' = [pages EXCEPT ![id].entries = LeafRemove(@, key)]
    /\ stored' = stored \ {key}
    /\ UNCHANGED <<root, full>>

\* MoveAllTo() of both kinds: an internal page's first key comes down from the
\* parent.
Joined(left, right, separator) ==
    IF pages[left].leaf
    THEN Leaf(pages[left].entries \o pages[right].entries, pages[right].next)
    ELSE Internal(pages[left].entries \o [pages[right].entries EXCEPT ![1].key = separator])

\* The page right of another under the same parent goes into it.
Merge ==
    /\ full = 0
    /\ \E p \in 1 .. Len(pages) :
         /\ ~pages[p].leaf /\ Size(p) > 1
         /\ \E i \in 2 .. Size(p) :
              LET left == pages[p].entries[i - 1].child
                  right == pages[p].entries[i].child
              IN /\ Size(left) + Size(right) < Max(left)
                 /\ pages' = [pages EXCEPT
                        ![left] = Joined(left, right, pages[p].entries[i].key),
                        ![right].entries = <<>>,
                        ![p].entries = RemoveChild(@, right)]
    /\ UNCHANGED <<root, full, stored>>

TreeNext ==
    \/ \E key \in Keys : Insert(key) \/ Remove(key)
    \/ Split \/ Merge

TreeSpec == TreeInit /\ [][TreeNext]_treeVars

-----------------------------------------------------------------------------
\* The descent finds the leaf of every key that is stored, and no other key,
\* between any two steps of a split that climbs the tree and after every merge
\* (bplus_tree.hpp 51-72, internal_page.hpp 37-118).
EveryKeyIsFound == \A key \in Keys : key \in stored <=> LeafLookup(FindLeaf(key), key)

\* Following the leaves' links from the first gives every key, in order.
ScanInOrder ==
    LET Leftmost[id \in 1 .. Len(pages)] ==
            IF pages[id].leaf THEN id ELSE Leftmost[pages[id].entries[1].child]
        Scan[id \in 0 .. Len(pages)] ==
            IF id = 0 THEN <<>> ELSE pages[id].entries \o Scan[pages[id].next]
        scanned == Scan[Leftmost[root]]
    IN /\ {scanned[i].key : i \in DOMAIN scanned} = stored
       /\ \A i \in 2 .. Len(scanned) : scanned[i - 1].key < scanned[i].key
=============================================================================
