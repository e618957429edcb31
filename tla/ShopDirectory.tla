---------------------------- MODULE ShopDirectory ----------------------------
(***************************************************************************)
(* What the shop is laid out with: categories (internal/catalog/category.go, *)
(* internal/admin/categories_page.go), points of sale (internal/points,    *)
(* internal/admin/points_page.go), the home banner (internal/banner,       *)
(* internal/admin/banner_page.go) and the pictures all of them and the     *)
(* products show (internal/media).  A save is several steps, since the     *)
(* bucket and the database share no transaction, and other staff save in   *)
(* between.  A step that fails has had no effect.                          *)
(***************************************************************************)
EXTENDS CatalogTables

CONSTANTS Savers,        \* staff members at work
          CategoryIds, PointIds,
          StoredPhotos,  \* keys of the product photos uploaded before
          MaxSaves,      \* bound: requests of one staff member
          MaxKeys        \* bound: pictures that are uploaded

(* A new object key holds a random UUID: it is never one already in use.   *)
ASSUME DirectoryAssumption == MaxKeys \in Nat /\ StoredPhotos \cap 1..MaxKeys = {}

VARIABLES directory,  \* categories, points_of_sale, home_banner
          bucket,     \* objects of the bucket
          keys,       \* uploads so far: every key is fresh
          saves       \* one record per staff member

directoryVars == <<directory, bucket, keys, saves>>

NoKey == 0
NoSave ==
    [pc |-> "idle", kind |-> "none", id |-> "", parent |-> "", slug |-> "", key |-> NoKey, bg |-> NoKey,
     remove |-> FALSE, row |-> <<>>, count |-> 0]

DirectoryInit ==
    /\ \E open \in BOOLEAN : directory =
         [categories |-> [c \in {"c1", "c2"} |-> [parent |-> IF c = "c2" THEN "c1" ELSE "", slug |-> c, image |-> NoKey]],
          points |-> [p \in {"A", "B"} |-> [active |-> p = "A" \/ open, name |-> 0]],
          banner |-> [image |-> NoKey, bg |-> NoKey, category |-> ""]]
    /\ bucket = UNION {{<<k, "full">>, <<k, "thumb">>} : k \in StoredPhotos} /\ keys = 0
    /\ saves = [s \in Savers |-> NoSave]

Step(s, rec) == saves' = [saves EXCEPT ![s] = rec]
Done(s) == Step(s, [NoSave EXCEPT !.count = saves[s].count])
Started(s, rec) == /\ saves[s].pc = "idle" /\ saves[s].count < MaxSaves
                   /\ Step(s, [rec EXCEPT !.count = saves[s].count + 1])

-----------------------------------------------------------------------------
(* The bucket (external: MinIO).  Objects are never overwritten.           *)

full(k) == <<k, "full">>
ThumbKey(k) == <<k, "thumb">>
picture(k) == <<k, "one">>
PutObject(objects) == bucket' = bucket \cup objects

(* Best effort: a leftover object only costs storage.                      *)
RemoveObject(objects) == bucket' \in {bucket, bucket \ objects}

(* A new picture, if one is chosen; an upload that fails ends the request. *)
storeFittedImage(s, next) ==
    \/ Step(s, next) /\ UNCHANGED <<bucket, keys>>
    \/ /\ keys < MaxKeys /\ keys' = keys + 1
       /\ PutObject({picture(keys + 1)})
       /\ Step(s, [next EXCEPT !.key = keys + 1])
    \/ Done(s) /\ UNCHANGED <<bucket, keys>>

(* Both variants of a product photo, or none that is reported: the key is  *)
(* known only once the thumb is stored too.                                *)
uploadHandler(s) ==
    /\ Started(s, [NoSave EXCEPT !.pc = "thumb", !.kind = "photo", !.key = keys + 1])
    /\ keys < MaxKeys /\ keys' = keys + 1
    /\ PutObject({full(keys + 1)})
    /\ UNCHANGED <<shop, directory>>
storeVariants(s) ==
    /\ saves[s].pc = "thumb"
    /\ \/ PutObject({ThumbKey(saves[s].key)}) /\ Step(s, [saves[s] EXCEPT !.pc = "attach"])
       \/ RemoveObject({full(saves[s].key)}) /\ Done(s)
    /\ UNCHANGED <<shop, directory, keys>>

(* The form that got the key writes it into product_images.                *)
attachPhoto(s) ==
    /\ saves[s].pc = "attach"
    /\ \E p \in DOMAIN shop.products :
          shop' = [shop EXCEPT !.images = Put(@, p, Append(imagesOf(shop, p), <<saves[s].key, NoText>>))]
    /\ Done(s)
    /\ UNCHANGED <<directory, bucket, keys>>

-----------------------------------------------------------------------------
(* Categories.                                                             *)

(* Only a category that is its own parent is refused; longer circles are   *)
(* not.  A slug is unique, a parent exists.                                *)
validCategory(cats, id, in) ==
    /\ in.parent # id
    /\ in.parent \in DOMAIN cats \cup {""}
    /\ \A c \in DOMAIN cats \ {id} : cats[c].slug # in.slug

(* categoriesCreate and categoriesUpdate: the photo goes up first.         *)
parseCategoryForm(s) ==
    /\ saves[s].pc = "idle" /\ saves[s].count < MaxSaves
    /\ \E id, slug \in CategoryIds, parent \in CategoryIds \cup {""}, remove \in BOOLEAN,
          kind \in {"create", "update"} :
          storeFittedImage(s, [NoSave EXCEPT !.pc = "row", !.kind = kind, !.id = id, !.parent = parent,
                                             !.slug = slug, !.remove = remove, !.count = saves[s].count + 1])
    /\ UNCHANGED <<shop, directory>>

(* Create and Update leave image_key alone.  A save that fails takes its   *)
(* upload back.                                                            *)
saveCategory(s) ==
    LET r == saves[s]
        cats == directory.categories
        known == r.id \in DOMAIN cats
        row == [parent |-> r.parent, slug |-> r.slug, image |-> IF known THEN cats[r.id].image ELSE NoKey]
    IN  /\ r.pc = "row" /\ r.kind \in {"create", "update"}
        /\ IF known = (r.kind = "update") /\ validCategory(cats, r.id, row)
           THEN /\ directory' = [directory EXCEPT !.categories = Put(@, r.id, row)]
                /\ IF r.key # NoKey \/ (r.kind = "update" /\ r.remove)
                   THEN Step(s, [r EXCEPT !.pc = "image"]) ELSE Done(s)
                /\ UNCHANGED bucket
           ELSE RemoveObject({picture(r.key)}) /\ Done(s) /\ UNCHANGED directory
        /\ UNCHANGED <<shop, keys>>

(* The category may be gone by now.  The photo it had stays stored.        *)
SetImage(s) ==
    LET r == saves[s]
    IN  /\ r.pc = "image"
        /\ \/ /\ r.id \in DOMAIN directory.categories
              /\ directory' = [directory EXCEPT !.categories[r.id].image = r.key]
              /\ UNCHANGED bucket
           \/ RemoveObject({picture(r.key)}) /\ UNCHANGED directory
        /\ Done(s)
        /\ UNCHANGED <<shop, keys>>

(* Refused while a product or a subcategory refers to it; the banner's     *)
(* link to it is set to NULL.                                              *)
categoriesDelete(s) ==
    /\ Started(s, NoSave)
    /\ \E id \in DOMAIN directory.categories :
          /\ \A p \in DOMAIN shop.products : shop.products[p].category # id
          /\ \A c \in DOMAIN directory.categories : directory.categories[c].parent # id
          /\ directory' = [directory EXCEPT !.categories = Without(@, {id}),
                                            !.banner.category = IF @ = id THEN "" ELSE @]
    /\ UNCHANGED <<shop, bucket, keys>>

-----------------------------------------------------------------------------
(* The banner: the stored row is read first, and its pictures written back *)
(* unless they are removed or replaced.                                    *)

bannerInputFromForm(s) ==
    /\ \E removeImage, removeBg \in BOOLEAN, category \in CategoryIds \cup {""} :
          Started(s, [NoSave EXCEPT !.pc = "picture", !.kind = "banner",
              !.row = [image |-> IF removeImage THEN NoKey ELSE directory.banner.image,
                       bg |-> IF removeBg THEN NoKey ELSE directory.banner.bg, category |-> category]])
    /\ UNCHANGED <<shop, directory, bucket, keys>>

(* The second upload may fail after the first: what is stored is removed.  *)
uploadPictures(s) ==
    LET r == saves[s]
    IN  /\ \/ r.pc = "picture" /\ storeFittedImage(s, [r EXCEPT !.pc = "background"])
           \/ r.pc = "background" /\ keys < MaxKeys /\ keys' = keys + 1
              /\ PutObject({picture(keys + 1)}) /\ Step(s, [r EXCEPT !.pc = "banner", !.bg = keys + 1])
           \/ r.pc = "background" /\ UNCHANGED <<bucket, keys>> /\ Step(s, [r EXCEPT !.pc = "banner"])
           \/ r.pc = "background" /\ UNCHANGED keys /\ RemoveObject({picture(r.key)}) /\ Done(s)
        /\ UNCHANGED <<shop, directory>>

apply(r) ==
    [r.row EXCEPT !.image = IF r.key # NoKey THEN r.key ELSE @, !.bg = IF r.bg # NoKey THEN r.bg ELSE @]

\* Mutant: the pictures a save replaces are removed from the bucket.
bannerSaveMut(s) ==
    LET r == saves[s]
    IN  /\ r.pc = "banner"
        /\ directory' = [directory EXCEPT !.banner = apply(r)]
        /\ bucket' = bucket \ {picture(k) : k \in {directory.banner.image, directory.banner.bg}
                                                \ {apply(r).image, apply(r).bg}}
        /\ Done(s)
        /\ UNCHANGED <<shop, keys>>

(* Refused when the category is gone; a save that fails takes its uploads  *)
(* back, one that succeeds keeps the pictures it replaced.                 *)
bannerSave(s) ==
    LET r == saves[s]
    IN  /\ r.pc = "banner"
        /\ \/ /\ r.row.category \in DOMAIN directory.categories \cup {""}
              /\ directory' = [directory EXCEPT !.banner = apply(r)]
              /\ UNCHANGED bucket
           \/ RemoveObject({picture(r.key), picture(r.bg)}) /\ UNCHANGED directory
        /\ Done(s)
        /\ UNCHANGED <<shop, keys>>

-----------------------------------------------------------------------------
(* Points of sale.                                                         *)

pointsCreate(s) ==
    /\ Started(s, NoSave)
    /\ \E p \in PointIds \ DOMAIN directory.points :
          directory' = [directory EXCEPT !.points = Put(@, p, [active |-> TRUE, name |-> 0])]
    /\ UNCHANGED <<shop, bucket, keys>>

(* The form and the toggle read the point, then write every field of it.   *)
pointsUpdate(s) ==
    /\ \E p \in DOMAIN directory.points, toggle \in BOOLEAN :
          Started(s, [NoSave EXCEPT !.pc = "point", !.id = p,
              !.row = IF toggle THEN [directory.points[p] EXCEPT !.active = ~@]
                      ELSE [directory.points[p] EXCEPT !.name = 1 - @]])
    /\ UNCHANGED <<shop, directory, bucket, keys>>
updatePoint(s) ==
    /\ saves[s].pc = "point" /\ Done(s)
    /\ directory' = [directory EXCEPT !.points = IF saves[s].id \in DOMAIN @ THEN [@ EXCEPT ![saves[s].id] = saves[s].row] ELSE @]
    /\ UNCHANGED <<shop, bucket, keys>>

(* Delete looks for goods at the point, then deletes it with whatever      *)
(* stock rows it has by then (ON DELETE CASCADE).                          *)
checkPointStock(s) ==
    /\ \E p \in DOMAIN directory.points :
          /\ \A v \in DOMAIN shop.variants : quantityAt(shop, v, p) = 0
          /\ Started(s, [NoSave EXCEPT !.pc = "delete", !.id = p])
    /\ UNCHANGED <<shop, directory, bucket, keys>>
deletePoint(s) ==
    /\ saves[s].pc = "delete" /\ Done(s)
    /\ directory' = [directory EXCEPT !.points = Without(@, {saves[s].id})]
    /\ shop' = [shop EXCEPT !.stock = Without(@, {c \in DOMAIN @ : c[2] = saves[s].id})]
    /\ UNCHANGED <<bucket, keys>>

(* Goods arrive at a point (StockRepo.Upsert): its row must exist.         *)
Upsert(s) ==
    /\ Started(s, NoSave)
    /\ \E v \in DOMAIN shop.variants, p \in DOMAIN directory.points, qty \in {0, 1} :
          shop' = putStock(shop, v, p, qty)
    /\ UNCHANGED <<directory, bucket, keys>>

DirectoryNext ==
    \E s \in Savers :
        \/ uploadHandler(s) \/ storeVariants(s) \/ attachPhoto(s)
        \/ parseCategoryForm(s) \/ saveCategory(s) \/ SetImage(s) \/ categoriesDelete(s)
        \/ bannerInputFromForm(s) \/ uploadPictures(s) \/ bannerSave(s)
        \/ pointsCreate(s) \/ pointsUpdate(s) \/ updatePoint(s)
        \/ checkPointStock(s) \/ deletePoint(s) \/ Upsert(s)

(* The directory by itself, on tables whose photos were uploaded before.   *)
PhotosStored ==
    /\ shop = [f \in DOMAIN EmptyTables |-> shop[f]]
    /\ \A p \in DOMAIN shop.products :
          imagesOf(shop, p) \in Seq(StoredPhotos \X {photo[2] : photo \in Range(imagesOf(shop, p))})
DirectorySpec == DirectoryInit /\ PhotosStored /\ [][DirectoryNext]_<<shop, directoryVars>>

-----------------------------------------------------------------------------
(* No page shows a broken picture: whatever a category, the banner or a    *)
(* product refers to is in the bucket, a product photo with its thumb,     *)
(* also when a banner save writes back pictures it read before another     *)
(* save replaced them; and the banner links to a category that exists.     *)
PicturesStored ==
    /\ \A c \in DOMAIN directory.categories :
          directory.categories[c].image # NoKey => picture(directory.categories[c].image) \in bucket
    /\ \A k \in {directory.banner.image, directory.banner.bg} \ {NoKey} : picture(k) \in bucket
    /\ \A p \in DOMAIN shop.products : \A i \in DOMAIN imagesOf(shop, p) :
          {full(imagesOf(shop, p)[i][1]), ThumbKey(imagesOf(shop, p)[i][1])} \subseteq bucket
    /\ directory.banner.category \in DOMAIN directory.categories \cup {""}

(* points.go, Delete: a point that still holds goods is refused, so that   *)
(* no stock is wiped with the point it lies at.                            *)
GoodsKeepTheirPoint ==
    [][\A c \in DOMAIN shop.stock : c[2] \in DOMAIN directory.points \ DOMAIN directory'.points =>
          shop.stock[c] = 0]_<<shop, directory>>
=============================================================================
