------------------------------ MODULE Catalog ------------------------------
(***************************************************************************)
(* The catalog service: products and prices (Products), the category tree  *)
(* (Categories), which product is filed under which category, and what a   *)
(* shopper is shown of all that.                                           *)
(***************************************************************************)
EXTENDS Products, Categories

VARIABLES
    filed,          \* product_categories: pairs of a product and a category
    filing          \* the requests that reclassify a product

vars == <<productVars, treeVars, filed, filing>>

Idle == [kind |-> "idle"]

\* ReclassifyProductUseCase: the product in any status, and all categories resolve.
BeginReclassify(e, slug, attach, detach) ==
    /\ filing[e] = Idle /\ moves < MaxMoves
    /\ slug \in DOMAIN product /\ attach \cup detach \subseteq DOMAIN category
    /\ filing' = [filing EXCEPT ![e] =
          [kind |-> "attach", product |-> slug, attach |-> attach, detach |-> detach]]
    /\ moves' = moves + 1
    /\ UNCHANGED <<productVars, category, moving, treeRaced, filed>>

\* attachProductCategories: INSERT IGNORE ...
AttachProductCategories(e) ==
    LET r == filing[e] IN
    /\ r.kind = "attach"
    /\ filed' = filed \cup ({r.product} \X r.attach)
    /\ filing' = [filing EXCEPT ![e].kind = "detach"]
    /\ UNCHANGED <<productVars, treeVars>>

\* ... and detachProductCategories, a statement of its own.
DetachProductCategories(e) ==
    LET r == filing[e] IN
    /\ r.kind = "detach"
    /\ filed' = filed \ ({r.product} \X r.detach)
    /\ filing' = [filing EXCEPT ![e] = Idle]
    /\ UNCHANGED <<productVars, treeVars>>

-----------------------------------------------------------------------------
(* What a shopper sees.                                                    *)

\* CatalogRepository.listActive, for ListProductsUseCase.
ListActive == {s \in DOMAIN product : product[s] = "active"}

\* CatalogRepository.listActiveByCategoryIds
ListActiveByCategoryIds(categories) ==
    {s \in ListActive : \E c \in categories : <<s, c>> \in filed}

\* ListCategoryProductsUseCase, with the descendants.
ListCategoryProducts(c) == ListActiveByCategoryIds({c} \cup ListSubtree(c))

-----------------------------------------------------------------------------
Init ==
    /\ ShelfInit /\ TreeInit
    /\ filed = {} /\ filing = [e \in Editors |-> Idle]

Next ==
    \/ ShelfNext /\ UNCHANGED <<treeVars, filed, filing>>
    \/ TreeNext /\ UNCHANGED <<productVars, filed, filing>>
    \/ \E e \in Editors :
          \/ \E s \in Slugs, attach, detach \in SUBSET Categories : BeginReclassify(e, s, attach, detach)
          \/ AttachProductCategories(e)
          \/ DetachProductCategories(e)

Spec == Init /\ [][Next]_vars

\* Unless a write met tree rows that had changed since they were read, a
\* category lists the products on sale that are filed under it or under
\* anything that hangs below it, and no other: the paths the list goes by and
\* the parents the tree is drawn from tell the same.  (ListCategoryProductsUseCase)
ListedWhereFiled ==
    ~treeRaced => \A c \in DOMAIN category :
        /\ BuildEnds(c)
        /\ ListCategoryProducts(c) =
              {s \in ListActive : \E d \in CategoryTree(c) : <<s, d>> \in filed}

=============================================================================
