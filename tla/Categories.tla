----------------------------- MODULE Categories -----------------------------
(***************************************************************************)
(* The category tree of the catalog service: every row holds its parent    *)
(* and its materialised path.                                              *)
(*                                                                         *)
(* Creating and moving a category read the rows they need first and write  *)
(* later, and nothing locks the tree.  A category is known by its slug,    *)
(* which is unique and never changes; no operation archives one, so every  *)
(* row is active.  The tree is "raced" from the first write that found     *)
(* another row than the one its request had read.                          *)
(***************************************************************************)
EXTENDS Integers, FiniteSets, Sequences, SequencesExt

CONSTANTS
    Editors,        \* requests served at a time
    Categories,     \* slugs a category may have
    NoParent,       \* parent_id of a root
    MaxMoves        \* bound: requests on the tree over a run

ASSUME CategoryIds == NoParent \notin Categories /\ MaxMoves \in Nat

VARIABLES
    category,       \* slug -> row, for the rows that exist
    moving,         \* editor -> the request it serves
    treeRaced,
    moves

treeVars == <<category, moving, treeRaced, moves>>

Resting == [kind |-> "resting"]

Exists(slug) == slug \in DOMAIN category

\* CategoryRepository.findBySlug, of a parent: none has the empty path.
FindBySlug(slug) == IF slug = NoParent THEN <<>> ELSE category[slug].path

DerivePath(parentPath, slug) == Append(parentPath, slug)

\* LIKE '<prefix>/%'
Below(prefix, path) == IsStrictPrefix(prefix, path)

IsAncestorOfOrSelf(path, other) == path = other \/ Below(path, other)

\* Category.create
NewCategory(parent, parentPath, slug) == [parent |-> parent, path |-> DerivePath(parentPath, slug)]

-----------------------------------------------------------------------------
(* Creating a category.                                                    *)

\* CreateCategoryUseCase up to the save: the slug is free, the parent is read.
BeginCreate(e, slug, parent) ==
    /\ moving[e] = Resting /\ moves < MaxMoves
    /\ ~Exists(slug)
    /\ parent = NoParent \/ Exists(parent)
    /\ moving' = [moving EXCEPT ![e] =
          [kind |-> "create", slug |-> slug, parent |-> parent, path |-> <<>>,
           parentPath |-> FindBySlug(parent)]]
    /\ moves' = moves + 1
    /\ UNCHANGED <<category, treeRaced>>

StillThere(request) == FindBySlug(request.parent) = request.parentPath

\* CategoryTypeormRepository.save; UC_CATEGORY_SLUG refuses the second of a slug.
SaveCategory(e) ==
    LET r == moving[e] IN
    /\ r.kind = "create"
    /\ IF Exists(r.slug)
       THEN UNCHANGED <<category, treeRaced>>
       ELSE /\ category' = [s \in DOMAIN category \cup {r.slug} |->
                  IF s = r.slug
                  THEN NewCategory(r.parent, r.parentPath, r.slug)
                  ELSE category[s]]
            /\ treeRaced' = (treeRaced \/ ~StillThere(r))
    /\ moving' = [moving EXCEPT ![e] = Resting]
    /\ UNCHANGED moves

-----------------------------------------------------------------------------
(* Moving a category with everything below it.                             *)

\* ReparentCategoryUseCase: the category is read first ...
BeginMove(e, slug, parent) ==
    /\ moving[e] = Resting /\ moves < MaxMoves
    /\ Exists(slug)
    /\ moving' = [moving EXCEPT ![e] =
          [kind |-> IF parent = NoParent THEN "move" ELSE "moveUnder",
           slug |-> slug, parent |-> parent, path |-> FindBySlug(slug), parentPath |-> <<>>]]
    /\ moves' = moves + 1
    /\ UNCHANGED <<category, treeRaced>>

\* Category.reparentUnder: not below itself, judged by the paths that were read.
MayMove(request, parentPath) == ~IsAncestorOfOrSelf(request.path, parentPath)

\* ... then the new parent, which must exist and lie outside the subtree.
ReadNewParent(e) ==
    LET r == moving[e] IN
    /\ r.kind = "moveUnder"
    /\ moving' = [moving EXCEPT ![e] =
          IF Exists(r.parent) /\ MayMove(r, FindBySlug(r.parent))
          THEN [r EXCEPT !.kind = "move", !.parentPath = FindBySlug(r.parent)]
          ELSE Resting]
    /\ UNCHANGED <<category, treeRaced, moves>>

\* Mutant of RebaseSubtree: the row moves, what hangs below it keeps its path.
RebaseRow(rows, slug, parent, oldPath, newPath) ==
    [rows EXCEPT ![slug] = [parent |-> parent, path |-> newPath]]

\* The transaction of reparentSubtree: the row by its id, then all paths below
\* the old one, whatever lies there by now.
RebaseSubtree(rows, slug, parent, oldPath, newPath) ==
    LET moved == [rows EXCEPT ![slug] = [parent |-> parent, path |-> newPath]]
        Suffix(path) == SubSeq(path, Len(oldPath) + 1, Len(path))
    IN [s \in DOMAIN rows |->
          IF Below(oldPath, moved[s].path)
          THEN [moved[s] EXCEPT !.path = newPath \o Suffix(moved[s].path)]
          ELSE moved[s]]

\* CategoryTypeormRepository.reparentSubtree: an unchanged path writes nothing.
ReparentSubtree(e) ==
    LET r == moving[e]
        newPath == DerivePath(r.parentPath, r.slug)
    IN
    /\ r.kind = "move"
    /\ IF newPath = r.path
       THEN UNCHANGED <<category, treeRaced>>
       ELSE /\ category' = RebaseSubtree(category, r.slug, r.parent, r.path, newPath)
            /\ treeRaced' = (treeRaced \/ ~StillThere(r) \/ FindBySlug(r.slug) # r.path)
    /\ moving' = [moving EXCEPT ![e] = Resting]
    /\ UNCHANGED moves

-----------------------------------------------------------------------------
(* What the tree is read for.                                              *)

\* CategoryRepository.listSubtree
ListSubtree(slug) ==
    {s \in DOMAIN category : IsAncestorOfOrSelf(category[slug].path, category[s].path)}

\* assembleCategoryTree: a level are the listed rows whose parent is in the level above.
TreeLevels(slug) ==
    LET listed == ListSubtree(slug)
        Level[n \in 0 .. Cardinality(listed)] ==
            IF n = 0 THEN {slug} ELSE {s \in listed : category[s].parent \in Level[n - 1]}
    IN Level

\* GetCategoryTreeUseCase: what the tree of a category shows.
CategoryTree(slug) == UNION Range(TreeLevels(slug))

\* A level deeper than all that is listed: build() calls itself for ever.
BuildEnds(slug) == TreeLevels(slug)[Cardinality(ListSubtree(slug))] = {}

-----------------------------------------------------------------------------
TreeInit ==
    /\ category = <<>>
    /\ moving = [e \in Editors |-> Resting]
    /\ treeRaced = FALSE
    /\ moves = 0

TreeNext ==
    \E e \in Editors :
      \/ \E s \in Categories, p \in Categories \cup {NoParent} : BeginCreate(e, s, p)
      \/ \E s \in Categories, p \in Categories \cup {NoParent} : BeginMove(e, s, p)
      \/ SaveCategory(e)
      \/ ReadNewParent(e)
      \/ ReparentSubtree(e)

=============================================================================
