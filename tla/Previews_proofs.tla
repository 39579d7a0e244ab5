-------------------------- MODULE Previews_proofs --------------------------
(***************************************************************************)
(* What becomes of a preview that was paid, for any number of themes,      *)
(* requests, servers, attempts and mishaps, and however the hashes fall.   *)
(* Five invariants, each on top of the ones before: the types (TypeInv);   *)
(* every record fits its state, and what is under a key has that hash      *)
(* (FitInv); who answers for an image (ImageInv); a key without overlap    *)
(* has one run (NewsInv); and an account, under every key, of what is paid *)
(* and what may still be (PayInv).                                         *)
(***************************************************************************)
EXTENDS Previews, TLAPS, FiniteSetTheorems

----------------------------------------------------------------------------
(* Types, and what fits together.                                          *)

AskStates  == {"new", "missed", "waiting", "answered", "refused", "lost"}
TaskStates == {"none", "waiting", "active", "completed", "failed"}
RunStates  == {"idle", "look", "write", "seo", "throw", "picture", "cache", "tell", "return"}
\* Awaits at which a run has a preview in its memory.
Carrying   == {"seo", "picture", "cache", "tell", "return"}
MaybePreviews == Previews \union {Nothing}

AskType  == [pc : AskStates, theme : Themes \union {None}, got : MaybePreviews]
TaskType == [st : TaskStates, theme : Themes \union {None}, owner : Servers \union {None},
             tries : 0 .. MaxTries, stalls : 0 .. 1, result : MaybePreviews]
SlotType == [pc : RunStates, key : HashKeys \union {None}, theme : Themes \union {None},
             preview : MaybePreviews]

TypeInv ==
  /\ hash \in [Themes -> HashKeys] /\ hash \in Hashes
  /\ ask \in [Asks -> AskType]
  /\ task \in [HashKeys -> TaskType]
  /\ slot \in [Servers -> SlotType]
  /\ cached \in [HashKeys -> MaybePreviews]
  /\ pictures \subseteq Pictured /\ kept \subseteq Pictured /\ wasted \subseteq Pictured
  /\ overlaps \subseteq HashKeys
  /\ paid \in [HashKeys -> Nat] /\ excuses \in [HashKeys -> Nat]
  /\ news \in [HashKeys -> {"none", "completed", "failed"}]
  /\ mishaps \in 0 .. MaxMishaps

\* A request that was answered has a preview of the hash it asked for.
AskOK(a) ==
  /\ ask[a].pc \in {"missed", "waiting", "answered"} => ask[a].theme \in Themes
  /\ ask[a].pc = "answered" => ask[a].got # Nothing /\ Key(ask[a].got.theme) = Key(ask[a].theme)

\* A job that waits or runs has attempts left, one that completed has a result,
\* and only an active one has an owner.
TaskOK(k) ==
  /\ task[k].st \in {"none", "waiting", "active"} => /\ task[k].tries < MaxTries
                                                      /\ task[k].result = Nothing
  /\ task[k].st \in {"waiting", "active"} => task[k].theme \in Themes /\ Key(task[k].theme) = k
  /\ task[k].st = "completed" => task[k].result # Nothing /\ Key(task[k].result.theme) = k
  /\ task[k].owner # None <=> task[k].st = "active"

\* A run works under the hash of its theme, and carries a preview of that hash.
SlotOK(s) ==
  /\ slot[s].pc = "idle" => slot[s] = Free
  /\ slot[s].pc # "idle" => slot[s].theme \in Themes /\ Key(slot[s].theme) = slot[s].key
  /\ slot[s].pc \in Carrying => /\ slot[s].preview # Nothing
                                /\ Key(slot[s].preview.theme) = slot[s].key
  /\ slot[s].pc \notin Carrying => slot[s].preview = Nothing

\* The cache has previews under their hashes.
CacheOK(k) == cached[k] # Nothing => Key(cached[k].theme) = k

FitInv ==
  /\ \A a \in Asks : AskOK(a)
  /\ \A k \in HashKeys : TaskOK(k)
  /\ \A k \in HashKeys : CacheOK(k)
  /\ \A s \in Servers : SlotOK(s)

\* No preview is Nothing.
LEMMA PreviewFacts ==
  ASSUME PreviewsAssumption
  PROVE  /\ Nothing \notin Previews /\ Nothing.image = FALSE /\ Nothing.id = None
         /\ \A p \in Previews : p.theme \in Themes /\ p.id \in Pictured /\ p.image \in BOOLEAN
         /\ \A p \in Previews, b \in BOOLEAN : [p EXCEPT !.image = b] \in Previews
BY DEF PreviewsAssumption, Previews, Nothing

\* At first everything has its type and fits.
LEMMA InitFits == PreviewsAssumption /\ Init => TypeInv /\ FitInv
<1> SUFFICES ASSUME PreviewsAssumption, Init PROVE TypeInv /\ FitInv
  OBVIOUS
<1>1. TypeInv
  BY DEF Init, PreviewsAssumption, TypeInv, NewAsk, NoJob, Free, AskType, TaskType, SlotType,
         AskStates, TaskStates, RunStates, MaybePreviews
<1>2. FitInv
  BY DEF Init, PreviewsAssumption, FitInv, CacheOK, AskOK, TaskOK, SlotOK, NewAsk, NoJob,
         Free, Carrying
<1> QED
  BY <1>1, <1>2

\* Types of what a slot holds.
LEMMA SlotFacts ==
  ASSUME PreviewsAssumption, TypeInv, FitInv, NEW s \in Servers
  PROVE  /\ slot[s] \in SlotType
         /\ slot[s].pc # "idle" => slot[s].key \in HashKeys /\ slot[s].theme \in Themes
         /\ slot[s].pc \in Carrying => slot[s].preview \in Previews
BY DEF TypeInv, FitInv, SlotOK, SlotType, MaybePreviews, Key

\* A run that carries a preview has one of its own hash.
LEMMA CarriedFacts ==
  ASSUME PreviewsAssumption, TypeInv, FitInv, NEW s \in Servers, slot[s].pc \in Carrying
  PROVE  /\ slot[s].preview \in Previews /\ slot[s].preview # Nothing
         /\ slot[s].preview.id \in Pictured
         /\ Key(slot[s].preview.theme) = slot[s].key
         /\ slot[s].key \in HashKeys
BY SlotFacts, PreviewFacts DEF FitInv, SlotOK, Carrying

\* A run goes on: its slot is at pc, with this preview.
Moved(s, pc, preview) ==
  /\ slot[s].pc # "idle" /\ slot[s].key \in HashKeys
  /\ slot' \in [Servers -> SlotType]
  /\ slot'[s].pc = pc /\ slot'[s].preview = preview
  /\ slot'[s].key = slot[s].key /\ slot'[s].theme = slot[s].theme
  /\ \A r \in Servers \ {s} : slot'[r] = slot[r]

\* Goes is what Moved says.
LEMMA GoesMoves ==
  ASSUME PreviewsAssumption, TypeInv, FitInv, NEW s \in Servers, NEW pc \in RunStates,
         NEW preview \in MaybePreviews, Goes(s, pc, preview), slot[s].pc # "idle"
  PROVE  Moved(s, pc, preview)
<1>1. slot[s] \in SlotType
  BY DEF TypeInv
<1>2. slot' = [slot EXCEPT ![s] = [slot[s] EXCEPT !.pc = pc, !.preview = preview]]
  BY <1>1 DEF Goes, TypeInv, SlotType
<1>3. [slot[s] EXCEPT !.pc = pc, !.preview = preview] \in SlotType
  BY <1>1 DEF SlotType
<1> QED
  BY <1>1, <1>2, <1>3, SlotFacts DEF TypeInv, SlotType, Moved

\* What Ends does to the job and to those who wait for it.
LEMMA EndsMoves ==
  ASSUME PreviewsAssumption, TypeInv, FitInv, NEW k \in HashKeys, NEW j \in TaskType, Ends(k, j)
  PROVE  /\ ask' \in [Asks -> AskType] /\ task' \in [HashKeys -> TaskType]
         /\ task'[k] = j
         /\ \A l \in HashKeys \ {k} : task'[l] = task[l]
         /\ \A a \in Asks :
              \/ ask'[a] = ask[a]
              \/ /\ ask[a].pc = "waiting" /\ Key(ask[a].theme) = k
                 /\ ask'[a].theme = ask[a].theme /\ ask'[a].got = j.result
                 /\ ask'[a].pc = IF j.st = "completed" THEN "answered" ELSE "refused"
<1> DEFINE pc == IF j.st = "completed" THEN "answered" ELSE "refused"
<1>0. pc \in AskStates /\ j.result \in MaybePreviews
  BY DEF AskStates, TaskType
<1>1. ASSUME NEW a \in Asks
      PROVE  /\ ask[a] \in AskType /\ Answer(ask[a], j) \in AskType
             /\ Answer(ask[a], j) = [ask[a] EXCEPT !.pc = pc, !.got = j.result]
  <2>1. ask[a] \in AskType
    BY DEF TypeInv
  <2>2. Answer(ask[a], j) = [ask[a] EXCEPT !.pc = pc, !.got = j.result]
    BY DEF Answer
  <2> HIDE DEF pc
  <2> QED
    BY <1>0, <2>1, <2>2 DEF AskType
<1>2. ask' \in [Asks -> AskType]
  BY <1>1 DEF Ends
<1>3. task' \in [HashKeys -> TaskType] /\ task'[k] = j
      /\ \A l \in HashKeys \ {k} : task'[l] = task[l]
  BY DEF Ends, TypeInv
<1>4. ASSUME NEW a \in Asks
      PROVE  \/ ask'[a] = ask[a]
             \/ /\ ask[a].pc = "waiting" /\ Key(ask[a].theme) = k
                /\ ask'[a].theme = ask[a].theme /\ ask'[a].got = j.result
                /\ ask'[a].pc = IF j.st = "completed" THEN "answered" ELSE "refused"
  BY <1>1 DEF Ends, Answer, AskType
<1> QED
  BY <1>2, <1>3, <1>4

\* A run that goes on with a preview of its hash, or without one, keeps FitInv.
LEMMA MovesFit ==
  ASSUME PreviewsAssumption, TypeInv, FitInv, NEW s \in Servers, NEW pc \in RunStates,
         NEW preview \in MaybePreviews, Moved(s, pc, preview), pc # "idle",
         pc \in Carrying <=> preview # Nothing,
         preview # Nothing => Key(preview.theme) = slot[s].key, UNCHANGED <<hash, ask, task>>,
         \A k \in HashKeys : cached'[k] = cached[k] \/ (k = slot[s].key /\ cached'[k] = preview)
  PROVE  FitInv'
<1>1. \A a \in Asks : AskOK(a)'
  BY DEF FitInv, AskOK, Key
<1>2. \A k \in HashKeys : TaskOK(k)'
  BY DEF FitInv, TaskOK, Key
<1>3. \A k \in HashKeys : CacheOK(k)'
  BY DEF FitInv, CacheOK, Key
<1>4. \A r \in Servers : SlotOK(r)'
  BY DEF FitInv, SlotOK, Key, Moved
<1> QED
  BY <1>1, <1>2, <1>3, <1>4 DEF FitInv

\* The steps of a run, one by one: what it moves to, and that it fits.  The article
\* of Write is numbered by what has been paid.
LEMMA WriteMoves ==
  ASSUME PreviewsAssumption, TypeInv, FitInv, NEW s \in Servers, Write(s)
  PROVE  \E preview \in Previews :
           /\ Moved(s, "seo", preview) /\ slot[s].pc = "write"
           /\ Key(preview.theme) = slot[s].key
           /\ preview.id = <<slot[s].key, paid[slot[s].key] + 1>> /\ preview.image = FALSE
<1> DEFINE preview == [theme |-> slot[s].theme, id |-> <<slot[s].key, paid[slot[s].key] + 1>>,
                       image |-> FALSE]
<1>1. Goes(s, "seo", preview) /\ "seo" \in RunStates /\ slot[s].pc = "write"
  BY SlotFacts DEF Write, RunStates, TypeInv
<1>2. /\ preview \in Previews /\ preview.theme = slot[s].theme /\ preview.image = FALSE
      /\ preview.id = <<slot[s].key, paid[slot[s].key] + 1>>
      /\ Key(preview.theme) = slot[s].key
  <2>1. slot[s].key \in HashKeys /\ slot[s].theme \in Themes /\ Key(slot[s].theme) = slot[s].key
    BY SlotFacts DEF Write, FitInv, SlotOK
  <2>2. <<slot[s].key, paid[slot[s].key] + 1>> \in Pictured
    BY <2>1 DEF TypeInv, Pictured
  <2> QED
    BY <2>1, <2>2 DEF Previews
<1> HIDE DEF preview
<1> QED
  BY <1>1, <1>2, GoesMoves DEF MaybePreviews

LEMMA WriteFits ==
  ASSUME PreviewsAssumption, TypeInv, FitInv, NEW s \in Servers, Write(s)
  PROVE  TypeInv' /\ FitInv'
<1>1. PICK preview \in Previews : /\ Moved(s, "seo", preview) /\ slot[s].pc = "write"
                                 /\ Key(preview.theme) = slot[s].key
                                 /\ preview.id = <<slot[s].key, paid[slot[s].key] + 1>>
                                 /\ preview.image = FALSE
  BY WriteMoves
<1>2. TypeInv'
  BY <1>1, CarriedFacts DEF Write, books, TypeInv, PreviewsAssumption, Carrying,
                            MaybePreviews, Pictured, Moved
<1>3. /\ UNCHANGED <<hash, ask, task>>
      /\ \A k \in HashKeys : cached'[k] = cached[k] \/ (k = slot[s].key /\ cached'[k] = preview)
  BY <1>1 DEF Write, books, TypeInv
<1> QED
  BY <1>1, <1>2, <1>3, MovesFit, PreviewFacts DEF MaybePreviews, RunStates, Carrying

\* The SEO fields add to the article, and without them it is lost.
LEMMA FieldsMoves ==
  ASSUME PreviewsAssumption, TypeInv, FitInv, NEW s \in Servers, Fields(s)
  PROVE  \E preview \in Previews :
           /\ Moved(s, "picture", preview) /\ slot[s].pc = "seo"
           /\ Key(preview.theme) = slot[s].key
           /\ preview = slot[s].preview
<1> DEFINE preview == slot[s].preview
<1>1. Goes(s, "picture", preview) /\ "picture" \in RunStates /\ slot[s].pc = "seo"
  BY DEF Fields, RunStates, TypeInv
<1>2. preview \in Previews /\ Key(preview.theme) = slot[s].key
  BY CarriedFacts DEF Fields, Carrying
<1> HIDE DEF preview
<1> QED
  BY <1>1, <1>2, GoesMoves DEF MaybePreviews, preview

LEMMA FieldsFits ==
  ASSUME PreviewsAssumption, TypeInv, FitInv, NEW s \in Servers, Fields(s)
  PROVE  TypeInv' /\ FitInv'
<1>1. PICK preview \in Previews : /\ Moved(s, "picture", preview) /\ slot[s].pc = "seo"
                                 /\ Key(preview.theme) = slot[s].key
                                 /\ preview = slot[s].preview
  BY FieldsMoves
<1>2. TypeInv'
  BY <1>1, CarriedFacts DEF Fields, books, TypeInv, PreviewsAssumption,
                            Carrying, MaybePreviews, Pictured, Moved
<1>3. /\ UNCHANGED <<hash, ask, task>>
      /\ \A k \in HashKeys : cached'[k] = cached[k] \/ (k = slot[s].key /\ cached'[k] = preview)
  BY <1>1 DEF Fields, books, TypeInv
<1> QED
  BY <1>1, <1>2, <1>3, MovesFit, PreviewFacts DEF MaybePreviews, RunStates, Carrying

LEMMA FieldsFailMoves ==
  ASSUME PreviewsAssumption, TypeInv, FitInv, NEW s \in Servers, FieldsFail(s)
  PROVE  slot[s].pc = "seo" /\ Moved(s, "throw", Nothing)
<1>1. slot[s].pc = "seo" /\ "throw" \in RunStates /\ Nothing \in MaybePreviews
  BY DEF FieldsFail, RunStates, MaybePreviews
<1> QED
  BY <1>1, GoesMoves DEF FieldsFail

LEMMA FieldsFailFits ==
  ASSUME PreviewsAssumption, TypeInv, FitInv, NEW s \in Servers, FieldsFail(s)
  PROVE  TypeInv' /\ FitInv'
<1>1. /\ UNCHANGED <<hash, ask, task, cached, pictures, paid, kept, wasted, overlaps>>
      /\ mishaps' \in 0 .. MaxMishaps /\ excuses' \in [HashKeys -> Nat]
      /\ news' \in [HashKeys -> {"none", "completed", "failed"}]
  <2>1. slot[s].key \in HashKeys
    BY FieldsFailMoves DEF Moved
  <2>2. news' \in [HashKeys -> {"none", "completed", "failed"}]
    BY <2>1 DEF FieldsFail, TypeInv
  <2>3. mishaps' \in 0 .. MaxMishaps
    BY DEF FieldsFail, Mishap, TypeInv, PreviewsAssumption
  <2>4. excuses' \in [HashKeys -> Nat]
    BY <2>1 DEF FieldsFail, Excuse, TypeInv
  <2> QED
    BY <2>2, <2>3, <2>4 DEF FieldsFail
<1>2. TypeInv'
  BY <1>1, FieldsFailMoves DEF TypeInv, Moved
<1> QED
  BY <1>1, <1>2, FieldsFailMoves, MovesFit DEF RunStates, Carrying, MaybePreviews

\* The image belongs to the preview of the run.
LEMMA PictureMoves ==
  ASSUME PreviewsAssumption, TypeInv, FitInv, NEW s \in Servers, Picture(s)
  PROVE  \E preview \in Previews :
           /\ Moved(s, "cache", preview) /\ slot[s].pc = "picture"
           /\ Key(preview.theme) = slot[s].key
           /\ preview.id = slot[s].preview.id /\ preview.image = TRUE
<1> DEFINE preview == [slot[s].preview EXCEPT !.image = TRUE]
<1>1. Goes(s, "cache", preview) /\ "cache" \in RunStates /\ slot[s].pc = "picture"
  BY DEF Picture, RunStates, TypeInv
<1>2. /\ preview \in Previews /\ preview.id = slot[s].preview.id /\ preview.image = TRUE
      /\ Key(preview.theme) = slot[s].key
  <2>1. slot[s].preview \in Previews /\ Key(slot[s].preview.theme) = slot[s].key
    BY CarriedFacts DEF Picture, Carrying
  <2>2. preview \in Previews /\ preview.theme = slot[s].preview.theme
        /\ preview.id = slot[s].preview.id /\ preview.image = TRUE
    BY <2>1 DEF Previews
  <2> QED
    BY <2>1, <2>2
<1> HIDE DEF preview
<1> QED
  BY <1>1, <1>2, GoesMoves DEF MaybePreviews

LEMMA PictureFits ==
  ASSUME PreviewsAssumption, TypeInv, FitInv, NEW s \in Servers, Picture(s)
  PROVE  TypeInv' /\ FitInv'
<1>1. PICK preview \in Previews : /\ Moved(s, "cache", preview) /\ slot[s].pc = "picture"
                                 /\ Key(preview.theme) = slot[s].key
                                 /\ preview.id = slot[s].preview.id /\ preview.image = TRUE
  BY PictureMoves
<1>2. TypeInv'
  BY <1>1, CarriedFacts DEF Picture, books, TypeInv, PreviewsAssumption, Carrying,
                            MaybePreviews, Pictured, Moved
<1>3. /\ UNCHANGED <<hash, ask, task>>
      /\ \A k \in HashKeys : cached'[k] = cached[k] \/ (k = slot[s].key /\ cached'[k] = preview)
  BY <1>1 DEF Picture, books, TypeInv
<1> QED
  BY <1>1, <1>2, <1>3, MovesFit, PreviewFacts DEF MaybePreviews, RunStates, Carrying

\* Without its image the preview goes on as it is, and so it does below.
LEMMA PictureFailsMoves ==
  ASSUME PreviewsAssumption, TypeInv, FitInv, NEW s \in Servers, PictureFails(s)
  PROVE  \E preview \in Previews :
           /\ Moved(s, "cache", preview) /\ slot[s].pc = "picture"
           /\ Key(preview.theme) = slot[s].key
           /\ preview = slot[s].preview
<1> DEFINE preview == slot[s].preview
<1>1. Goes(s, "cache", preview) /\ "cache" \in RunStates /\ slot[s].pc = "picture"
  BY DEF PictureFails, RunStates, TypeInv
<1>2. preview \in Previews /\ Key(preview.theme) = slot[s].key
  BY CarriedFacts DEF PictureFails, Carrying
<1> HIDE DEF preview
<1> QED
  BY <1>1, <1>2, GoesMoves DEF MaybePreviews, preview

LEMMA PictureFailsFits ==
  ASSUME PreviewsAssumption, TypeInv, FitInv, NEW s \in Servers, PictureFails(s)
  PROVE  TypeInv' /\ FitInv'
<1>1. PICK preview \in Previews : /\ Moved(s, "cache", preview) /\ slot[s].pc = "picture"
                                 /\ Key(preview.theme) = slot[s].key
                                 /\ preview = slot[s].preview
  BY PictureFailsMoves
<1>2. TypeInv'
  BY <1>1, CarriedFacts DEF PictureFails, Mishap, books, TypeInv, PreviewsAssumption,
                            Carrying, MaybePreviews, Pictured, Moved
<1>3. /\ UNCHANGED <<hash, ask, task>>
      /\ \A k \in HashKeys : cached'[k] = cached[k] \/ (k = slot[s].key /\ cached'[k] = preview)
  BY <1>1 DEF PictureFails, Mishap, books, TypeInv
<1> QED
  BY <1>1, <1>2, <1>3, MovesFit, PreviewFacts DEF MaybePreviews, RunStates, Carrying

LEMMA CacheMoves ==
  ASSUME PreviewsAssumption, TypeInv, FitInv, NEW s \in Servers, Cache(s)
  PROVE  \E preview \in Previews :
           /\ Moved(s, "tell", preview) /\ slot[s].pc = "cache"
           /\ Key(preview.theme) = slot[s].key
           /\ preview = slot[s].preview
<1> DEFINE preview == slot[s].preview
<1>1. Goes(s, "tell", preview) /\ "tell" \in RunStates /\ slot[s].pc = "cache"
  BY DEF Cache, RunStates, TypeInv
<1>2. preview \in Previews /\ Key(preview.theme) = slot[s].key
  BY CarriedFacts DEF Cache, Carrying
<1> HIDE DEF preview
<1> QED
  BY <1>1, <1>2, GoesMoves DEF MaybePreviews, preview

LEMMA CacheFits ==
  ASSUME PreviewsAssumption, TypeInv, FitInv, NEW s \in Servers, Cache(s)
  PROVE  TypeInv' /\ FitInv'
<1>1. PICK preview \in Previews : /\ Moved(s, "tell", preview) /\ slot[s].pc = "cache"
                                 /\ Key(preview.theme) = slot[s].key
                                 /\ preview = slot[s].preview
  BY CacheMoves
<1>2. TypeInv'
  BY <1>1, CarriedFacts DEF Cache, Mishap, Excuse, books, TypeInv, PreviewsAssumption,
                            Carrying, MaybePreviews, Pictured, Moved
<1>3. /\ UNCHANGED <<hash, ask, task>>
      /\ \A k \in HashKeys : cached'[k] = cached[k] \/ (k = slot[s].key /\ cached'[k] = preview)
  BY <1>1 DEF Cache, Mishap, Excuse, books, TypeInv
<1> QED
  BY <1>1, <1>2, <1>3, MovesFit, PreviewFacts DEF MaybePreviews, RunStates, Carrying

LEMMA TellMoves ==
  ASSUME PreviewsAssumption, TypeInv, FitInv, NEW s \in Servers, Tell(s)
  PROVE  \E preview \in Previews :
           /\ Moved(s, "return", preview) /\ slot[s].pc = "tell"
           /\ Key(preview.theme) = slot[s].key
           /\ preview = slot[s].preview
<1> DEFINE preview == slot[s].preview
<1>1. Goes(s, "return", preview) /\ "return" \in RunStates /\ slot[s].pc = "tell"
  BY DEF Tell, RunStates, TypeInv
<1>2. preview \in Previews /\ Key(preview.theme) = slot[s].key
  BY CarriedFacts DEF Tell, Carrying
<1> HIDE DEF preview
<1> QED
  BY <1>1, <1>2, GoesMoves DEF MaybePreviews, preview

LEMMA TellFits ==
  ASSUME PreviewsAssumption, TypeInv, FitInv, NEW s \in Servers, Tell(s)
  PROVE  TypeInv' /\ FitInv'
<1>1. PICK preview \in Previews : /\ Moved(s, "return", preview) /\ slot[s].pc = "tell"
                                 /\ Key(preview.theme) = slot[s].key
                                 /\ preview = slot[s].preview
  BY TellMoves
<1>2. TypeInv'
  BY <1>1, CarriedFacts DEF Tell, books, TypeInv, PreviewsAssumption, Carrying, MaybePreviews,
                            Pictured, Moved
<1>3. /\ UNCHANGED <<hash, ask, task>>
      /\ \A k \in HashKeys : cached'[k] = cached[k] \/ (k = slot[s].key /\ cached'[k] = preview)
  BY <1>1 DEF Tell, books, TypeInv
<1> QED
  BY <1>1, <1>2, <1>3, MovesFit, PreviewFacts DEF MaybePreviews, RunStates, Carrying

\* The second look finds a preview, or goes on to write, and when it goes on
\* although there is one, Redis has failed.
LEMMA LookMoves ==
  ASSUME PreviewsAssumption, TypeInv, FitInv, NEW s \in Servers, Look(s)
  PROVE  /\ slot[s].pc = "look"
         /\ \/ /\ cached[slot[s].key] # Nothing /\ UNCHANGED excuses
               /\ Moved(s, "tell", cached[slot[s].key])
            \/ /\ cached[slot[s].key] = Nothing /\ UNCHANGED excuses
               /\ Moved(s, "write", Nothing)
            \/ /\ cached[slot[s].key] # Nothing /\ Excuse(slot[s].key)
               /\ Moved(s, "write", Nothing)
<1>1. /\ slot[s].pc = "look" /\ "tell" \in RunStates /\ "write" \in RunStates
      /\ Nothing \in MaybePreviews /\ cached[slot[s].key] \in MaybePreviews
  BY SlotFacts DEF Look, RunStates, MaybePreviews, TypeInv
<1> QED
  BY <1>1, GoesMoves DEF Look

LEMMA LookFits ==
  ASSUME PreviewsAssumption, TypeInv, FitInv, NEW s \in Servers, Look(s)
  PROVE  TypeInv' /\ FitInv'
<1>1. slot[s].key \in HashKeys
  BY SlotFacts DEF Look
<1>2. PICK pc \in {"tell", "write"}, preview \in MaybePreviews :
        /\ Moved(s, pc, preview)
        /\ pc \in Carrying <=> preview # Nothing
        /\ preview # Nothing => Key(preview.theme) = slot[s].key
  BY <1>1, LookMoves DEF TypeInv, FitInv, CacheOK, Carrying, MaybePreviews
<1>3. TypeInv'
  BY <1>2 DEF Look, Mishap, Excuse, TypeInv, PreviewsAssumption, Moved
<1>4. UNCHANGED <<hash, ask, task, cached>>
  BY DEF Look
<1> QED
  BY <1>2, <1>3, <1>4, MovesFit DEF RunStates

\* Without an article the run is about to throw.
LEMMA WriteFailsMoves ==
  ASSUME PreviewsAssumption, TypeInv, FitInv, NEW s \in Servers, WriteFails(s)
  PROVE  slot[s].pc = "write" /\ Moved(s, "throw", Nothing)
<1>1. slot[s].pc = "write" /\ "throw" \in RunStates /\ Nothing \in MaybePreviews
  BY DEF WriteFails, RunStates, MaybePreviews
<1> QED
  BY <1>1, GoesMoves DEF WriteFails

LEMMA WriteFailsFits ==
  ASSUME PreviewsAssumption, TypeInv, FitInv, NEW s \in Servers, WriteFails(s)
  PROVE  TypeInv' /\ FitInv'
<1>1. /\ UNCHANGED <<hash, ask, task, cached, pictures, paid, books>>
      /\ mishaps' \in 0 .. MaxMishaps
      /\ news' \in [HashKeys -> {"none", "completed", "failed"}]
  <2>1. slot[s].key \in HashKeys
    BY WriteFailsMoves DEF Moved
  <2>2. news' \in [HashKeys -> {"none", "completed", "failed"}]
    BY <2>1 DEF WriteFails, TypeInv
  <2>3. mishaps' \in 0 .. MaxMishaps
    BY DEF WriteFails, Mishap, TypeInv, PreviewsAssumption
  <2> QED
    BY <2>2, <2>3 DEF WriteFails
<1>2. TypeInv'
  BY <1>1, WriteFailsMoves DEF books, TypeInv, Moved
<1> QED
  BY <1>1, <1>2, WriteFailsMoves, MovesFit DEF RunStates, Carrying, MaybePreviews

\* A job that ends with a result of its hash, or failed, leaves jobs and requests
\* as they should be.
LEMMA EndsFits ==
  ASSUME PreviewsAssumption, TypeInv, FitInv, NEW k \in HashKeys, NEW j \in TaskType, Ends(k,
         j), UNCHANGED hash, j.st \in {"completed", "failed"}, j.owner = None,
         j.st = "completed" => j.result # Nothing /\ Key(j.result.theme) = k
  PROVE  /\ \A a \in Asks : AskOK(a)'
         /\ \A l \in HashKeys : TaskOK(l)'
<1>1. \A a \in Asks : AskOK(a)'
  BY EndsMoves DEF FitInv, AskOK, Key
<1>2. \A l \in HashKeys : TaskOK(l)'
  BY EndsMoves DEF FitInv, TaskOK, Key
<1> QED
  BY <1>1, <1>2

\* A slot that becomes free fits.
LEMMA FreesFit ==
  ASSUME PreviewsAssumption, TypeInv, FitInv, NEW s \in Servers,
         slot' = [slot EXCEPT ![s] = Free], UNCHANGED hash
  PROVE  /\ slot' \in [Servers -> SlotType]
         /\ \A r \in Servers : SlotOK(r)'
<1>1. Free \in SlotType /\ Free.pc = "idle" /\ Free.preview = Nothing
  BY DEF Free, SlotType, RunStates, MaybePreviews
<1>2. slot' \in [Servers -> SlotType] /\ slot'[s] = Free
      /\ \A r \in Servers \ {s} : slot'[r] = slot[r]
  BY <1>1 DEF TypeInv
<1> QED
  BY <1>1, <1>2 DEF FitInv, SlotOK, Key, Carrying

\* The other actions, one by one.  A request is answered from the cache under its
\* hash.
LEMMA AskFits ==
  ASSUME PreviewsAssumption, TypeInv, FitInv, NEW a \in Asks, NEW t \in Themes, Ask(a, t)
  PROVE  TypeInv' /\ FitInv'
<1>1. PICK r \in AskType : /\ ask' = [ask EXCEPT ![a] = r] /\ r.theme = t
                           /\ \/ r.pc = "missed"
                              \/ /\ r.pc = "answered" /\ r.got = cached[Key(t)]
                                 /\ cached[Key(t)] # Nothing
  <2> DEFINE yes == [pc |-> "answered", theme |-> t, got |-> cached[Key(t)]]
             no  == [NewAsk EXCEPT !.pc = "missed", !.theme = t]
  <2>1. cached[Key(t)] \in MaybePreviews
    BY DEF TypeInv, Key
  <2>2. yes \in AskType /\ no \in AskType /\ no.pc = "missed" /\ no.theme = t
    BY <2>1 DEF NewAsk, AskType, AskStates, MaybePreviews
  <2>3. \/ cached[Key(t)] # Nothing /\ ask' = [ask EXCEPT ![a] = yes]
        \/ ask' = [ask EXCEPT ![a] = no]
    BY DEF Ask
  <2> HIDE DEF no
  <2> QED
    BY <2>2, <2>3
<1>2. ask' \in [Asks -> AskType] /\ ask'[a] = r /\ \A b \in Asks \ {a} : ask'[b] = ask[b]
  BY <1>1 DEF TypeInv
<1>3. Key(t) \in HashKeys
  BY DEF TypeInv, Key
<1>4. /\ UNCHANGED <<hash, task, slot, cached, pictures, paid, news, books>>
      /\ mishaps' \in 0 .. MaxMishaps
  BY DEF Ask, Mishap, TypeInv, PreviewsAssumption
<1>5. TypeInv'
  BY <1>2, <1>4 DEF TypeInv, books
<1>6. \A b \in Asks : AskOK(b)'
  BY <1>1, <1>2, <1>3, <1>4 DEF FitInv, AskOK, CacheOK, Key
<1> QED
  BY <1>4, <1>5, <1>6 DEF FitInv, TaskOK, CacheOK, SlotOK, Key

\* It is answered from a job under its hash.
LEMMA EnqueueFits ==
  ASSUME PreviewsAssumption, TypeInv, FitInv, NEW a \in Asks, Enqueue(a)
  PROVE  TypeInv' /\ FitInv'
<1> DEFINE k == Key(ask[a].theme)
           j == [NoJob EXCEPT !.st = "waiting", !.theme = ask[a].theme]
<1>1. ask[a] \in AskType /\ ask[a].theme \in Themes /\ k \in HashKeys /\ task[k] \in TaskType
  BY DEF Enqueue, TypeInv, FitInv, AskOK, Key
<1>2. UNCHANGED <<hash, slot, cached, pictures, paid, news, books, mishaps>>
  BY DEF Enqueue
<1>3. j \in TaskType /\ j.st = "waiting" /\ j.theme = ask[a].theme /\ j.tries = 0
      /\ j.result = Nothing /\ j.owner = None
  <2>1. NoJob \in TaskType /\ NoJob.tries = 0 /\ NoJob.result = Nothing /\ NoJob.owner = None
    BY DEF NoJob, TaskType, TaskStates, MaybePreviews, PreviewsAssumption
  <2> QED
    BY <1>1, <2>1 DEF TaskType, TaskStates
<1>4. task' = task \/ task' = [task EXCEPT ![k] = j]
  BY DEF Enqueue
<1>5. /\ task' \in [HashKeys -> TaskType]
      /\ \A l \in HashKeys \ {k} : task'[l] = task[l]
      /\ task'[k] = task[k] \/ task'[k] = j
  BY <1>1, <1>3, <1>4 DEF TypeInv
<1>6. PICK r \in AskType : /\ ask' = [ask EXCEPT ![a] = r] /\ r.theme = ask[a].theme
                           /\ \/ r.pc \in {"waiting", "refused"}
                              \/ /\ r.pc = "answered" /\ r.got = task[k].result
                                 /\ task[k].st = "completed"
  <2> DEFINE pc == IF task[k].st = "completed" THEN "answered" ELSE "refused"
             heard == [ask[a] EXCEPT !.pc = pc, !.got = task[k].result]
             waits == [ask[a] EXCEPT !.pc = "waiting"]
  <2>1. /\ Answer(ask[a], task[k]) = heard
        /\ pc = "refused" \/ (pc = "answered" /\ task[k].st = "completed")
    BY DEF Answer
  <2>2. ask' = [ask EXCEPT ![a] = heard] \/ ask' = [ask EXCEPT ![a] = waits]
    BY <2>1 DEF Enqueue
  <2>3. pc \in AskStates
    BY DEF AskStates
  <2> HIDE DEF pc
  <2>4. /\ heard \in AskType /\ heard.theme = ask[a].theme /\ heard.pc = pc
        /\ heard.got = task[k].result
        /\ waits \in AskType /\ waits.theme = ask[a].theme /\ waits.pc = "waiting"
    BY <1>1, <2>3 DEF AskType, AskStates, TaskType
  <2> HIDE DEF heard, waits
  <2> QED
    BY <2>1, <2>2, <2>4
<1>7. ask' \in [Asks -> AskType] /\ ask'[a] = r /\ \A b \in Asks \ {a} : ask'[b] = ask[b]
  BY <1>6 DEF TypeInv
<1> HIDE DEF k, j
<1>8. TypeInv'
  BY <1>2, <1>5, <1>7 DEF TypeInv, books
<1>9. \A b \in Asks : AskOK(b)'
  BY <1>1, <1>2, <1>6, <1>7 DEF FitInv, AskOK, TaskOK, Key, k
<1>10. \A l \in HashKeys : TaskOK(l)'
  BY <1>1, <1>2, <1>3, <1>5 DEF FitInv, TaskOK, Key, k, PreviewsAssumption
<1> QED
  BY <1>2, <1>8, <1>9, <1>10 DEF FitInv, CacheOK, SlotOK, Key

LEMMA TakeFits ==
  ASSUME PreviewsAssumption, TypeInv, FitInv, NEW s \in Servers, NEW k \in HashKeys, Take(s, k)
  PROVE  TypeInv' /\ FitInv'
<1> DEFINE j == [task[k] EXCEPT !.st = "active", !.owner = s]
           r == [Free EXCEPT !.pc = "look", !.key = k, !.theme = task[k].theme]
<1>1. /\ UNCHANGED <<hash, ask, cached, pictures, paid, news, books, mishaps>>
      /\ task[k] \in TaskType /\ task[k].theme \in Themes /\ Key(task[k].theme) = k
      /\ task[k].tries < MaxTries /\ task[k].result = Nothing
  BY DEF Take, TypeInv, FitInv, TaskOK
<1>2. /\ r \in SlotType /\ r.pc = "look" /\ r.key = k /\ r.theme = task[k].theme
      /\ r.preview = Nothing
  BY <1>1 DEF Free, SlotType, RunStates, MaybePreviews
<1>3. j \in TaskType /\ j.st = "active" /\ j.owner = s /\ j.theme = task[k].theme
      /\ j.tries = task[k].tries
      /\ j.result = Nothing
  BY <1>1 DEF TaskType, TaskStates
<1>4. task' = [task EXCEPT ![k] = j] /\ slot' = [slot EXCEPT ![s] = r]
  BY <1>1 DEF Take, TypeInv, TaskType
<1> HIDE DEF j, r
<1>5. task' \in [HashKeys -> TaskType] /\ task'[k] = j
      /\ \A l \in HashKeys \ {k} : task'[l] = task[l]
  BY <1>3, <1>4 DEF TypeInv
<1>6. slot' \in [Servers -> SlotType] /\ slot'[s] = r
      /\ \A q \in Servers \ {s} : slot'[q] = slot[q]
  BY <1>2, <1>4 DEF TypeInv
<1>7. TypeInv'
  BY <1>1, <1>5, <1>6 DEF TypeInv, books
<1>8. \A l \in HashKeys : TaskOK(l)'
  BY <1>1, <1>3, <1>5 DEF FitInv, TaskOK, Key, PreviewsAssumption
<1>9. \A q \in Servers : SlotOK(q)'
  BY <1>1, <1>2, <1>6 DEF FitInv, SlotOK, Key, Carrying
<1> QED
  BY <1>1, <1>7, <1>8, <1>9 DEF FitInv, AskOK, CacheOK, Key

LEMMA ReturnFits ==
  ASSUME PreviewsAssumption, TypeInv, FitInv, NEW s \in Servers, Return(s)
  PROVE  TypeInv' /\ FitInv'
<1> DEFINE k == slot[s].key
           j == [task[k] EXCEPT !.st = "completed", !.owner = None, !.result = slot[s].preview]
<1>1. /\ UNCHANGED <<hash, cached, pictures, paid, news, books, mishaps>>
      /\ slot' = [slot EXCEPT ![s] = Free]
      /\ slot[s].preview \in Previews /\ slot[s].preview # Nothing
      /\ Key(slot[s].preview.theme) = k /\ k \in HashKeys /\ task[k] \in TaskType
  BY CarriedFacts DEF Return, Carrying, TypeInv
<1>2. j \in TaskType /\ j.st = "completed" /\ j.owner = None /\ j.result = slot[s].preview
  BY <1>1 DEF TaskType, TaskStates, MaybePreviews
<1>3. Ends(k, j) \/ UNCHANGED <<ask, task>>
  BY DEF Return
<1> HIDE DEF j
<1>4. ask' \in [Asks -> AskType] /\ task' \in [HashKeys -> TaskType]
  BY <1>1, <1>2, <1>3, EndsMoves DEF TypeInv
<1>5. /\ \A a \in Asks : AskOK(a)'
      /\ \A l \in HashKeys : TaskOK(l)'
  <2>1. CASE Ends(k, j)
    BY <2>1, <1>1, <1>2, EndsFits
  <2>2. CASE UNCHANGED <<ask, task>>
    BY <2>2, <1>1 DEF FitInv, AskOK, TaskOK, Key
  <2> QED
    BY <1>3, <2>1, <2>2
<1>6. TypeInv'
  BY <1>1, <1>4, FreesFit DEF TypeInv, books
<1> QED
  BY <1>1, <1>5, <1>6, FreesFit DEF FitInv, CacheOK, Key

LEMMA ThrowFits ==
  ASSUME PreviewsAssumption, TypeInv, FitInv, NEW s \in Servers, Throw(s)
  PROVE  TypeInv' /\ FitInv'
<1> DEFINE k == slot[s].key
           j == [task[k] EXCEPT !.tries = task[k].tries + 1, !.owner = None]
           w == [j EXCEPT !.st = "waiting"]
           f == [j EXCEPT !.st = "failed"]
<1>1. /\ UNCHANGED <<hash, cached, pictures, paid, news, books, mishaps>>
      /\ slot' = [slot EXCEPT ![s] = Free]
      /\ k \in HashKeys /\ task[k] \in TaskType
  BY SlotFacts DEF Throw, TypeInv
<1>2. \/ UNCHANGED <<ask, task>>
      \/ /\ task[k].st = "active" /\ task[k].tries + 1 < MaxTries
         /\ task' = [task EXCEPT ![k] = w] /\ UNCHANGED ask
      \/ task[k].st = "active" /\ Ends(k, f)
  <2>1. task[k].owner = s => task[k].st = "active"
    BY <1>1 DEF FitInv, TaskOK, PreviewsAssumption
  <2> QED
    BY <1>1, <2>1 DEF Throw, TaskType
<1>3. CASE UNCHANGED <<ask, task>>
  <2>1. TypeInv'
    BY <1>1, <1>3, FreesFit DEF TypeInv, books
  <2> QED
    BY <1>1, <1>3, <2>1, FreesFit DEF FitInv, AskOK, TaskOK, CacheOK, Key
<1>4. CASE /\ task[k].st = "active" /\ task[k].tries + 1 < MaxTries
           /\ task' = [task EXCEPT ![k] = w] /\ UNCHANGED ask
  <2>1. w \in TaskType /\ w.st = "waiting" /\ w.owner = None /\ w.theme = task[k].theme
        /\ w.tries = task[k].tries + 1 /\ w.result = task[k].result
    <3>1. j \in TaskType /\ j.owner = None /\ j.theme = task[k].theme
          /\ j.tries = task[k].tries + 1 /\ j.result = task[k].result
      <4>1. task[k].tries + 1 \in 0 .. MaxTries
        BY <1>1, <1>4 DEF TaskType, PreviewsAssumption
      <4> QED
        BY <1>1, <4>1 DEF TaskType
    <3> HIDE DEF j
    <3> QED
      BY <3>1 DEF TaskType, TaskStates
  <2> HIDE DEF w
  <2>2. task' \in [HashKeys -> TaskType] /\ task'[k] = w
        /\ \A l \in HashKeys \ {k} : task'[l] = task[l]
    BY <1>1, <1>4, <2>1 DEF TypeInv
  <2>3. TypeInv'
    BY <1>1, <1>4, <2>2, FreesFit DEF TypeInv, books
  <2>4. \A l \in HashKeys : TaskOK(l)'
    BY <1>1, <1>4, <2>1, <2>2 DEF FitInv, TaskOK, Key
  <2> QED
    BY <1>1, <1>4, <2>3, <2>4, FreesFit DEF FitInv, AskOK, CacheOK, Key
<1>5. CASE task[k].st = "active" /\ Ends(k, f)
  <2>1. task[k].tries < MaxTries
    BY <1>1, <1>5 DEF FitInv, TaskOK
  <2>2. f \in TaskType /\ f.st = "failed" /\ f.owner = None
    <3>1. j \in TaskType /\ j.owner = None
      <4>1. task[k].tries + 1 \in 0 .. MaxTries
        BY <1>1, <2>1 DEF TaskType, PreviewsAssumption
      <4> QED
        BY <1>1, <4>1 DEF TaskType
    <3> HIDE DEF j
    <3> QED
      BY <3>1 DEF TaskType, TaskStates
  <2> HIDE DEF f
  <2>3. ask' \in [Asks -> AskType] /\ task' \in [HashKeys -> TaskType]
    BY <1>1, <1>5, <2>2, EndsMoves
  <2>4. TypeInv'
    BY <1>1, <2>3, FreesFit DEF TypeInv, books
  <2>5. /\ \A a \in Asks : AskOK(a)'
        /\ \A l \in HashKeys : TaskOK(l)'
    BY <1>1, <1>5, <2>2, EndsFits
  <2> QED
    BY <1>1, <2>4, <2>5, FreesFit DEF FitInv, CacheOK, Key
<1> QED
  BY <1>2, <1>3, <1>4, <1>5

LEMMA CrashFits ==
  ASSUME PreviewsAssumption, TypeInv, FitInv, NEW s \in Servers, Crash(s)
  PROVE  TypeInv' /\ FitInv'
<1>1. /\ UNCHANGED <<hash, task, cached, pictures, paid, news, kept, overlaps>>
      /\ slot' = [slot EXCEPT ![s] = Free] /\ mishaps' \in 0 .. MaxMishaps
  BY DEF Crash, Mishap, TypeInv, PreviewsAssumption
<1>2. /\ ask' \in [Asks -> AskType]
      /\ \A a \in Asks : ask'[a] = ask[a] \/ ask'[a].pc = "lost"
  BY DEF Crash, TypeInv, AskType, AskStates
<1>3. excuses' \in [HashKeys -> Nat] /\ wasted' \subseteq Pictured
  BY SlotFacts, CarriedFacts DEF Crash, Cut, Excuse, TypeInv, Carrying
<1>4. TypeInv'
  BY <1>1, <1>2, <1>3, FreesFit DEF TypeInv
<1>5. \A a \in Asks : AskOK(a)'
  BY <1>1, <1>2 DEF FitInv, AskOK, Key
<1> QED
  BY <1>1, <1>4, <1>5, FreesFit DEF FitInv, TaskOK, CacheOK, Key

\* A job that is found without a lock waits again, or has failed.
LEMMA StalledFits ==
  ASSUME PreviewsAssumption, TypeInv, FitInv, NEW k \in HashKeys, task[k].st = "active",
         Stalled(k), UNCHANGED hash
  PROVE  /\ ask' \in [Asks -> AskType] /\ task' \in [HashKeys -> TaskType]
         /\ \A a \in Asks : AskOK(a)'
         /\ \A l \in HashKeys : TaskOK(l)'
         /\ task'[k].st \in {"waiting", "failed"} /\ task'[k].owner = None
         /\ \A l \in HashKeys \ {k} : task'[l] = task[l]
<1> DEFINE w == [task[k] EXCEPT !.st = "waiting", !.owner = None, !.stalls = 1]
           f == [task[k] EXCEPT !.st = "failed", !.owner = None]
<1>1. task[k] \in TaskType
  BY DEF TypeInv
<1>2. /\ w \in TaskType /\ w.st = "waiting" /\ w.owner = None /\ w.theme = task[k].theme
      /\ w.tries = task[k].tries /\ w.result = task[k].result
      /\ f \in TaskType /\ f.st = "failed" /\ f.owner = None
  <2>1. "waiting" \in TaskStates /\ "failed" \in TaskStates /\ 1 \in 0 .. 1
    BY DEF TaskStates
  <2>2. w \in TaskType /\ w.st = "waiting" /\ w.owner = None /\ w.theme = task[k].theme
        /\ w.tries = task[k].tries /\ w.result = task[k].result
    BY <1>1, <2>1 DEF TaskType
  <2>3. f \in TaskType /\ f.st = "failed" /\ f.owner = None
    BY <1>1, <2>1 DEF TaskType
  <2> QED
    BY <2>2, <2>3
<1>3. (task' = [task EXCEPT ![k] = w] /\ UNCHANGED ask) \/ Ends(k, f)
  BY <1>1 DEF Stalled, TypeInv, TaskType
<1> HIDE DEF w, f
<1>4. CASE task' = [task EXCEPT ![k] = w] /\ UNCHANGED ask
  <2>1. task' \in [HashKeys -> TaskType] /\ task'[k] = w
        /\ \A l \in HashKeys \ {k} : task'[l] = task[l]
    BY <1>2, <1>4 DEF TypeInv
  <2>2. \A l \in HashKeys : TaskOK(l)'
    BY <1>2, <2>1 DEF FitInv, TaskOK, Key
  <2>3. \A a \in Asks : AskOK(a)'
    BY <1>4 DEF FitInv, AskOK, Key
  <2> QED
    BY <1>2, <1>4, <2>1, <2>2, <2>3 DEF TypeInv
<1>5. CASE Ends(k, f)
  BY <1>2, <1>5, EndsMoves, EndsFits
<1> QED
  BY <1>3, <1>4, <1>5

LEMMA RecoverFits ==
  ASSUME PreviewsAssumption, TypeInv, FitInv, NEW k \in HashKeys, Recover(k)
  PROVE  TypeInv' /\ FitInv'
<1>1. /\ UNCHANGED <<hash, slot, cached, pictures, paid, news, books, mishaps>>
      /\ task[k].st = "active" /\ Stalled(k)
  BY DEF Recover
<1>2. TypeInv'
  BY <1>1, StalledFits DEF TypeInv, books
<1> QED
  BY <1>1, <1>2, StalledFits DEF FitInv, CacheOK, SlotOK, Key

LEMMA LoseLockFits ==
  ASSUME PreviewsAssumption, TypeInv, FitInv, NEW k \in HashKeys, LoseLock(k)
  PROVE  TypeInv' /\ FitInv'
<1>1. /\ UNCHANGED <<hash, slot, cached, pictures, paid, news, kept, wasted>>
      /\ task[k].st = "active" /\ Stalled(k)
      /\ overlaps' \subseteq HashKeys /\ excuses' \in [HashKeys -> Nat]
      /\ mishaps' \in 0 .. MaxMishaps
  BY DEF LoseLock, Mishap, Excuse, TypeInv, PreviewsAssumption
<1>2. TypeInv'
  BY <1>1, StalledFits DEF TypeInv
<1> QED
  BY <1>1, <1>2, StalledFits DEF FitInv, CacheOK, SlotOK, Key

LEMMA RemoveFits ==
  ASSUME PreviewsAssumption, TypeInv, FitInv, NEW k \in HashKeys, Remove(k)
  PROVE  TypeInv' /\ FitInv'
<1>1. /\ UNCHANGED <<hash, ask, slot, cached, pictures, paid, news, books>>
      /\ mishaps' \in 0 .. MaxMishaps /\ task' = [task EXCEPT ![k] = NoJob]
  BY DEF Remove, Mishap, TypeInv, PreviewsAssumption
<1>2. /\ NoJob \in TaskType /\ NoJob.st = "none" /\ NoJob.tries < MaxTries
      /\ NoJob.result = Nothing
      /\ NoJob.owner = None
  BY DEF NoJob, TaskType, TaskStates, MaybePreviews, PreviewsAssumption
<1>3. task' \in [HashKeys -> TaskType] /\ task'[k] = NoJob
      /\ \A l \in HashKeys \ {k} : task'[l] = task[l]
  BY <1>1, <1>2 DEF TypeInv
<1>4. TypeInv'
  BY <1>1, <1>3 DEF TypeInv, books
<1>5. \A l \in HashKeys : TaskOK(l)'
  BY <1>1, <1>2, <1>3 DEF FitInv, TaskOK, Key
<1> QED
  BY <1>1, <1>4, <1>5 DEF FitInv, AskOK, CacheOK, SlotOK, Key

LEMMA ExpireFits ==
  ASSUME PreviewsAssumption, TypeInv, FitInv, NEW k \in HashKeys, Expire(k)
  PROVE  TypeInv' /\ FitInv'
<1>1. /\ UNCHANGED <<hash, ask, task, slot, pictures, paid, news, kept, wasted, overlaps>>
      /\ mishaps' \in 0 .. MaxMishaps /\ excuses' \in [HashKeys -> Nat]
      /\ cached' \in [HashKeys -> MaybePreviews]
      /\ cached'[k] = Nothing /\ \A l \in HashKeys \ {k} : cached'[l] = cached[l]
  BY DEF Expire, Mishap, Excuse, TypeInv, PreviewsAssumption, MaybePreviews
<1>2. TypeInv'
  BY <1>1 DEF TypeInv
<1>3. \A l \in HashKeys : CacheOK(l)'
  BY <1>1 DEF FitInv, CacheOK, Key
<1> QED
  BY <1>1, <1>2, <1>3 DEF FitInv, AskOK, TaskOK, SlotOK, Key

----------------------------------------------------------------------------
(* Images.                                                                 *)

\* A run whose preview has not come as far as the cache.
Making(s) == slot[s].pc \in {"seo", "picture", "cache"}

\* A run at its end has a preview that came as far as the cache; one that is making
\* its preview numbers it by what was paid, and an image it has not counted as its
\* own is wasted.
ImageOK(s) ==
  LET p == slot[s].preview IN
  /\ slot[s].pc \in {"tell", "return"} => p.id \in kept
  /\ Making(s) => p.id[1] = slot[s].key /\ p.id[2] <= paid[slot[s].key]
  /\ slot[s].pc \in {"seo", "picture"} => ~p.image
  /\ p.image => p.id \in pictures
  /\ Making(s) /\ ~p.image /\ p.id \in pictures => p.id \in wasted

\* A preview in the cache came that far, and its image is in R2.
KeptOK(k) ==
  cached[k] # Nothing => cached[k].id \in kept /\ (cached[k].image => cached[k].id \in pictures)

\* Two runs never make the same image.
Apart(r, s) == r # s /\ Making(r) /\ Making(s) => slot[r].preview.id # slot[s].preview.id

\* Who answers for an image: a preview that came as far as the cache, a mishap, or
\* the run that is making it.
Claimed(id) ==
  id \in kept \union wasted \/ \E s \in Servers : Making(s) /\ slot[s].preview.id = id

ImageInv ==
  /\ \A id \in pictures : Claimed(id)
  /\ \A id \in pictures : id[2] <= paid[id[1]]
  /\ \A k \in HashKeys : KeptOK(k)
  /\ \A s \in Servers : ImageOK(s)
  /\ \A r, s \in Servers : Apart(r, s)

\* At first there are no images.
LEMMA InitImages == PreviewsAssumption /\ Init => ImageInv
<1> SUFFICES ASSUME PreviewsAssumption, Init PROVE ImageInv
  OBVIOUS
<1>1. \A s \in Servers : slot[s].pc = "idle" /\ slot[s].preview = Nothing
  BY DEF Init, Free
<1>2. \A s \in Servers : ImageOK(s)
  BY <1>1, PreviewFacts DEF ImageOK, Making
<1> QED
  BY <1>1, <1>2 DEF Init, ImageInv, Claimed, KeptOK, Making, Apart

\* What touches neither slots, cache nor images keeps ImageInv.
LEMMA QuietImages ==
  ASSUME ImageInv, UNCHANGED <<slot, cached, pictures, paid, kept, wasted>>
  PROVE  ImageInv'
BY DEF ImageInv, Claimed, KeptOK, ImageOK, Making, Apart

\* The steps of a run, one by one.
LEMMA LookImages ==
  ASSUME PreviewsAssumption, TypeInv, FitInv, ImageInv, NEW s \in Servers, Look(s)
  PROVE  ImageInv'
<1>1. PICK pc \in {"tell", "write"}, preview \in MaybePreviews :
        /\ Moved(s, pc, preview) /\ slot[s].pc = "look"
        /\ \/ pc = "tell" /\ preview = cached[slot[s].key] /\ preview # Nothing
           \/ pc = "write" /\ preview = Nothing
  BY LookMoves, SlotFacts DEF TypeInv, MaybePreviews
<1>2. UNCHANGED <<cached, pictures, paid, kept, wasted>>
  BY DEF Look
<1> USE PreviewFacts, SlotFacts
<1>3. \A id \in pictures' : Claimed(id)'
  BY <1>1, <1>2 DEF ImageInv, Claimed, ImageOK, Moved, Making
<1>4. \A id \in pictures' : id[2] <= paid'[id[1]]
  BY <1>1, <1>2 DEF ImageInv, ImageOK, Making, TypeInv, Moved, Pictured
<1>5. \A k \in HashKeys : KeptOK(k)'
  BY <1>1, <1>2 DEF ImageInv, KeptOK, ImageOK
<1>6. ASSUME NEW r \in Servers PROVE ImageOK(r)'
  <2>1. CASE r = s
    BY <1>1, <1>2, <2>1 DEF ImageInv, ImageOK, Moved, Making, TypeInv, KeptOK, Pictured
  <2>2. CASE r # s
    <3>1. ImageOK(r) /\ slot'[r] = slot[r]
      BY <1>1, <2>2 DEF ImageInv, Moved
    <3> QED
      BY <1>1, <1>2, <3>1 DEF ImageOK, Making, TypeInv, Moved
  <2> QED
    BY <2>1, <2>2
<1>7. \A q, r \in Servers : Apart(q, r)'
  BY <1>1, <1>2 DEF ImageInv, ImageOK, Moved, Making, Apart, TypeInv
<1> QED
  BY <1>3, <1>4, <1>5, <1>6, <1>7 DEF ImageInv

\* The number of a new article is new, so that nobody has its image.
LEMMA WriteImages ==
  ASSUME PreviewsAssumption, TypeInv, FitInv, ImageInv, NEW s \in Servers, Write(s)
  PROVE  ImageInv'
<1>1. PICK preview \in Previews : /\ Moved(s, "seo", preview) /\ slot[s].pc = "write"
                                 /\ preview.id = <<slot[s].key, paid[slot[s].key] + 1>>
                                 /\ preview.image = FALSE
  BY WriteMoves
<1>2. UNCHANGED <<cached, pictures, kept, wasted>> /\ paid' = [paid EXCEPT ![slot[s].key] = @ + 1]
  BY DEF Write, books
<1> USE PreviewFacts, SlotFacts
<1>3. \A id \in pictures' : Claimed(id)'
  BY <1>1, <1>2 DEF ImageInv, Claimed, ImageOK, Moved, Making
<1>4. \A id \in pictures' : id[2] <= paid'[id[1]]
  BY <1>1, <1>2 DEF ImageInv, ImageOK, Making, TypeInv, Moved, Pictured
<1>5. \A k \in HashKeys : KeptOK(k)'
  BY <1>1, <1>2 DEF ImageInv, KeptOK, ImageOK
<1>6. ASSUME NEW r \in Servers PROVE ImageOK(r)'
  <2>1. CASE r = s
    BY <1>1, <1>2, <2>1 DEF ImageInv, ImageOK, Moved, Making, TypeInv, KeptOK, Pictured
  <2>2. CASE r # s
    <3>1. ImageOK(r) /\ slot'[r] = slot[r]
      BY <1>1, <2>2 DEF ImageInv, Moved
    <3>2. Making(r) => slot[r].key \in HashKeys /\ slot[r].preview.id[2] \in Nat
      BY CarriedFacts DEF Making, Carrying, Pictured
    <3>3. \A k \in HashKeys : paid[k] \in Nat /\ paid'[k] \in Nat /\ paid[k] <= paid'[k]
      BY <1>1, <1>2 DEF TypeInv, Moved
    <3> QED
      BY <1>2, <3>1, <3>2, <3>3 DEF ImageOK, Making
  <2> QED
    BY <2>1, <2>2
<1>7. \A q, r \in Servers : Apart(q, r)'
  BY <1>1, <1>2 DEF ImageInv, ImageOK, Moved, Making, Apart, TypeInv
<1> QED
  BY <1>3, <1>4, <1>5, <1>6, <1>7 DEF ImageInv

LEMMA WriteFailsImages ==
  ASSUME PreviewsAssumption, TypeInv, FitInv, ImageInv, NEW s \in Servers, WriteFails(s)
  PROVE  ImageInv'
<1> DEFINE preview == Nothing
<1>1. slot[s].pc = "write" /\ Moved(s, "throw", preview)
  BY WriteFailsMoves
<1>2. UNCHANGED <<cached, pictures, paid, kept, wasted>>
  BY DEF WriteFails, books
<1> USE PreviewFacts, SlotFacts
<1>3. \A id \in pictures' : Claimed(id)'
  BY <1>1, <1>2 DEF ImageInv, Claimed, ImageOK, Moved, Making
<1>4. \A id \in pictures' : id[2] <= paid'[id[1]]
  BY <1>1, <1>2 DEF ImageInv, ImageOK, Making, TypeInv, Moved, Pictured
<1>5. \A k \in HashKeys : KeptOK(k)'
  BY <1>1, <1>2 DEF ImageInv, KeptOK, ImageOK
<1>6. \A r \in Servers : ImageOK(r)'
  BY <1>1, <1>2 DEF ImageInv, ImageOK, Moved, Making, TypeInv, KeptOK, Apart, Pictured
<1>7. \A q, r \in Servers : Apart(q, r)'
  BY <1>1, <1>2 DEF ImageInv, ImageOK, Moved, Making, Apart, TypeInv
<1> QED
  BY <1>3, <1>4, <1>5, <1>6, <1>7 DEF ImageInv

LEMMA FieldsImages ==
  ASSUME PreviewsAssumption, TypeInv, FitInv, ImageInv, NEW s \in Servers, Fields(s)
  PROVE  ImageInv'
<1>1. PICK preview \in Previews : /\ Moved(s, "picture", preview) /\ slot[s].pc = "seo"
                                 /\ preview = slot[s].preview
  BY FieldsMoves
<1>2. UNCHANGED <<cached, pictures, paid, kept, wasted>>
  BY DEF Fields, books
<1> USE PreviewFacts, SlotFacts
<1>3. \A id \in pictures' : Claimed(id)'
  BY <1>1, <1>2 DEF ImageInv, Claimed, ImageOK, Moved, Making
<1>4. \A id \in pictures' : id[2] <= paid'[id[1]]
  BY <1>1, <1>2 DEF ImageInv, ImageOK, Making, TypeInv, Moved, Pictured
<1>5. \A k \in HashKeys : KeptOK(k)'
  BY <1>1, <1>2 DEF ImageInv, KeptOK, ImageOK
<1>6. \A r \in Servers : ImageOK(r)'
  BY <1>1, <1>2 DEF ImageInv, ImageOK, Moved, Making, TypeInv, KeptOK, Apart, Pictured
<1>7. \A q, r \in Servers : Apart(q, r)'
  BY <1>1, <1>2 DEF ImageInv, ImageOK, Moved, Making, Apart, TypeInv
<1> QED
  BY <1>3, <1>4, <1>5, <1>6, <1>7 DEF ImageInv

LEMMA FieldsFailImages ==
  ASSUME PreviewsAssumption, TypeInv, FitInv, ImageInv, NEW s \in Servers, FieldsFail(s)
  PROVE  ImageInv'
<1> DEFINE preview == Nothing
<1>1. slot[s].pc = "seo" /\ Moved(s, "throw", preview)
  BY FieldsFailMoves
<1>2. UNCHANGED <<cached, pictures, paid, kept, wasted>>
  BY DEF FieldsFail
<1> USE PreviewFacts, SlotFacts
<1>3. \A id \in pictures' : Claimed(id)'
  BY <1>1, <1>2 DEF ImageInv, Claimed, ImageOK, Moved, Making
<1>4. \A id \in pictures' : id[2] <= paid'[id[1]]
  BY <1>1, <1>2 DEF ImageInv, ImageOK, Making, TypeInv, Moved, Pictured
<1>5. \A k \in HashKeys : KeptOK(k)'
  BY <1>1, <1>2 DEF ImageInv, KeptOK, ImageOK
<1>6. \A r \in Servers : ImageOK(r)'
  BY <1>1, <1>2 DEF ImageInv, ImageOK, Moved, Making, TypeInv, KeptOK, Apart, Pictured
<1>7. \A q, r \in Servers : Apart(q, r)'
  BY <1>1, <1>2 DEF ImageInv, ImageOK, Moved, Making, Apart, TypeInv
<1> QED
  BY <1>3, <1>4, <1>5, <1>6, <1>7 DEF ImageInv

LEMMA PictureImages ==
  ASSUME PreviewsAssumption, TypeInv, FitInv, ImageInv, NEW s \in Servers, Picture(s)
  PROVE  ImageInv'
<1>1. PICK preview \in Previews : /\ Moved(s, "cache", preview) /\ slot[s].pc = "picture"
                                 /\ preview.id = slot[s].preview.id /\ preview.image = TRUE
  BY PictureMoves
<1>2. UNCHANGED <<cached, paid, kept, wasted>> /\ pictures' = pictures \union {slot[s].preview.id}
  BY DEF Picture, books
<1> USE PreviewFacts, SlotFacts
<1>3. \A id \in pictures' : Claimed(id)'
  BY <1>1, <1>2 DEF ImageInv, Claimed, ImageOK, Moved, Making
<1>4. \A id \in pictures' : id[2] <= paid'[id[1]]
  BY <1>1, <1>2 DEF ImageInv, ImageOK, Making, TypeInv, Moved, Pictured
<1>5. \A k \in HashKeys : KeptOK(k)'
  BY <1>1, <1>2 DEF ImageInv, KeptOK, ImageOK
<1>6. \A r \in Servers : ImageOK(r)'
  BY <1>1, <1>2 DEF ImageInv, ImageOK, Moved, Making, TypeInv, KeptOK, Apart, Pictured
<1>7. \A q, r \in Servers : Apart(q, r)'
  BY <1>1, <1>2 DEF ImageInv, ImageOK, Moved, Making, Apart, TypeInv
<1> QED
  BY <1>3, <1>4, <1>5, <1>6, <1>7 DEF ImageInv

LEMMA PictureFailsImages ==
  ASSUME PreviewsAssumption, TypeInv, FitInv, ImageInv, NEW s \in Servers, PictureFails(s)
  PROVE  ImageInv'
<1>1. PICK preview \in Previews : /\ Moved(s, "cache", preview) /\ slot[s].pc = "picture"
                                 /\ preview = slot[s].preview
  BY PictureFailsMoves
<1>2. /\ UNCHANGED <<cached, paid, kept>>
      /\ \E stored \in {{}, {slot[s].preview.id}} :
           pictures' = pictures \union stored /\ wasted' = wasted \union stored
  BY DEF PictureFails
<1> USE PreviewFacts, SlotFacts
<1>3. \A id \in pictures' : Claimed(id)'
  BY <1>1, <1>2 DEF ImageInv, Claimed, ImageOK, Moved, Making
<1>4. \A id \in pictures' : id[2] <= paid'[id[1]]
  BY <1>1, <1>2 DEF ImageInv, ImageOK, Making, TypeInv, Moved, Pictured
<1>5. \A k \in HashKeys : KeptOK(k)'
  BY <1>1, <1>2 DEF ImageInv, KeptOK, ImageOK
<1>6. \A r \in Servers : ImageOK(r)'
  BY <1>1, <1>2 DEF ImageInv, ImageOK, Moved, Making, TypeInv, KeptOK, Apart, Pictured
<1>7. \A q, r \in Servers : Apart(q, r)'
  BY <1>1, <1>2 DEF ImageInv, ImageOK, Moved, Making, Apart, TypeInv
<1> QED
  BY <1>3, <1>4, <1>5, <1>6, <1>7 DEF ImageInv

LEMMA CacheImages ==
  ASSUME PreviewsAssumption, TypeInv, FitInv, ImageInv, NEW s \in Servers, Cache(s)
  PROVE  ImageInv'
<1>1. PICK preview \in Previews : /\ Moved(s, "tell", preview) /\ slot[s].pc = "cache"
                                 /\ preview = slot[s].preview
  BY CacheMoves
<1>2. /\ UNCHANGED <<pictures, paid, wasted>> /\ kept' = kept \union {slot[s].preview.id}
      /\ \A k \in HashKeys : cached'[k] = cached[k] \/ cached'[k] = preview
  BY <1>1 DEF Cache, TypeInv
<1> USE PreviewFacts, SlotFacts
<1>3. \A id \in pictures' : Claimed(id)'
  BY <1>1, <1>2 DEF ImageInv, Claimed, ImageOK, Moved, Making
<1>4. \A id \in pictures' : id[2] <= paid'[id[1]]
  BY <1>1, <1>2 DEF ImageInv, ImageOK, Making, TypeInv, Moved, Pictured
<1>5. \A k \in HashKeys : KeptOK(k)'
  BY <1>1, <1>2 DEF ImageInv, KeptOK, ImageOK
<1>6. \A r \in Servers : ImageOK(r)'
  BY <1>1, <1>2 DEF ImageInv, ImageOK, Moved, Making, TypeInv, KeptOK, Apart, Pictured
<1>7. \A q, r \in Servers : Apart(q, r)'
  BY <1>1, <1>2 DEF ImageInv, ImageOK, Moved, Making, Apart, TypeInv
<1> QED
  BY <1>3, <1>4, <1>5, <1>6, <1>7 DEF ImageInv

LEMMA TellImages ==
  ASSUME PreviewsAssumption, TypeInv, FitInv, ImageInv, NEW s \in Servers, Tell(s)
  PROVE  ImageInv'
<1>1. PICK preview \in Previews : /\ Moved(s, "return", preview) /\ slot[s].pc = "tell"
                                 /\ preview = slot[s].preview
  BY TellMoves
<1>2. UNCHANGED <<cached, pictures, paid, kept, wasted>>
  BY DEF Tell, books
<1> USE PreviewFacts, SlotFacts
<1>3. \A id \in pictures' : Claimed(id)'
  BY <1>1, <1>2 DEF ImageInv, Claimed, ImageOK, Moved, Making
<1>4. \A id \in pictures' : id[2] <= paid'[id[1]]
  BY <1>1, <1>2 DEF ImageInv, ImageOK, Making, TypeInv, Moved, Pictured
<1>5. \A k \in HashKeys : KeptOK(k)'
  BY <1>1, <1>2 DEF ImageInv, KeptOK, ImageOK
<1>6. \A r \in Servers : ImageOK(r)'
  BY <1>1, <1>2 DEF ImageInv, ImageOK, Moved, Making, TypeInv, KeptOK, Apart, Pictured
<1>7. \A q, r \in Servers : Apart(q, r)'
  BY <1>1, <1>2 DEF ImageInv, ImageOK, Moved, Making, Apart, TypeInv
<1> QED
  BY <1>3, <1>4, <1>5, <1>6, <1>7 DEF ImageInv

LEMMA ReturnImages ==
  ASSUME PreviewsAssumption, TypeInv, FitInv, ImageInv, NEW s \in Servers, Return(s)
  PROVE  ImageInv'
<1>1. /\ slot' = [slot EXCEPT ![s] = Free] /\ slot[s].pc = "return"
      /\ UNCHANGED <<cached, pictures, paid, kept, wasted>>
  BY DEF Return, books
<1>2. /\ slot'[s] = Free /\ Free.pc = "idle" /\ Free.preview = Nothing
      /\ \A r \in Servers \ {s} : slot'[r] = slot[r]
  BY <1>1 DEF TypeInv, Free
<1>3. \A id \in pictures' : Claimed(id)'
  BY <1>1, <1>2 DEF ImageInv, Claimed, ImageOK, Making
<1>4. \A id \in pictures' : id[2] <= paid'[id[1]]
  BY <1>1 DEF ImageInv
<1>5. \A k \in HashKeys : KeptOK(k)'
  BY <1>1 DEF ImageInv, KeptOK
<1>6. ASSUME NEW r \in Servers PROVE ImageOK(r)'
  <2>1. CASE r = s
    BY <1>2, <2>1, PreviewFacts DEF ImageOK, Making
  <2>2. CASE r # s
    <3>1. ImageOK(r) /\ slot'[r] = slot[r]
      BY <1>2, <2>2 DEF ImageInv
    <3> QED
      BY <1>1, <3>1 DEF ImageOK, Making
  <2> QED
    BY <2>1, <2>2
<1>7. \A q, r \in Servers : Apart(q, r)'
  BY <1>1, <1>2 DEF ImageInv, Making, Apart
<1> QED
  BY <1>3, <1>4, <1>5, <1>6, <1>7 DEF ImageInv

LEMMA ThrowImages ==
  ASSUME PreviewsAssumption, TypeInv, FitInv, ImageInv, NEW s \in Servers, Throw(s)
  PROVE  ImageInv'
<1>1. /\ slot' = [slot EXCEPT ![s] = Free] /\ slot[s].pc = "throw"
      /\ UNCHANGED <<cached, pictures, paid, kept, wasted>>
  BY DEF Throw, books
<1>2. /\ slot'[s] = Free /\ Free.pc = "idle" /\ Free.preview = Nothing
      /\ \A r \in Servers \ {s} : slot'[r] = slot[r]
  BY <1>1 DEF TypeInv, Free
<1>3. \A id \in pictures' : Claimed(id)'
  BY <1>1, <1>2 DEF ImageInv, Claimed, ImageOK, Making
<1>4. \A id \in pictures' : id[2] <= paid'[id[1]]
  BY <1>1 DEF ImageInv
<1>5. \A k \in HashKeys : KeptOK(k)'
  BY <1>1 DEF ImageInv, KeptOK
<1>6. ASSUME NEW r \in Servers PROVE ImageOK(r)'
  <2>1. CASE r = s
    BY <1>2, <2>1, PreviewFacts DEF ImageOK, Making
  <2>2. CASE r # s
    <3>1. ImageOK(r) /\ slot'[r] = slot[r]
      BY <1>2, <2>2 DEF ImageInv
    <3> QED
      BY <1>1, <3>1 DEF ImageOK, Making
  <2> QED
    BY <2>1, <2>2
<1>7. \A q, r \in Servers : Apart(q, r)'
  BY <1>1, <1>2 DEF ImageInv, Making, Apart
<1> QED
  BY <1>3, <1>4, <1>5, <1>6, <1>7 DEF ImageInv

\* A run that is cut off between image and cache leaves its image wasted.
LEMMA CrashImages ==
  ASSUME PreviewsAssumption, TypeInv, FitInv, ImageInv, NEW s \in Servers, Crash(s)
  PROVE  ImageInv'
<1>1. /\ slot' = [slot EXCEPT ![s] = Free]
      /\ UNCHANGED <<cached, pictures, paid, kept>>
      /\ wasted' = IF slot[s].preview.image /\ slot[s].pc = "cache"
                   THEN wasted \union {slot[s].preview.id} ELSE wasted
  BY DEF Crash, Cut
<1>2. /\ slot'[s] = Free /\ Free.pc = "idle" /\ Free.preview = Nothing
      /\ \A r \in Servers \ {s} : slot'[r] = slot[r]
  BY <1>1 DEF TypeInv, Free
<1>3. \A id \in pictures' : Claimed(id)'
  BY <1>1, <1>2 DEF ImageInv, Claimed, ImageOK, Making
<1>4. \A id \in pictures' : id[2] <= paid'[id[1]]
  BY <1>1 DEF ImageInv
<1>5. \A k \in HashKeys : KeptOK(k)'
  BY <1>1 DEF ImageInv, KeptOK
<1>6. ASSUME NEW r \in Servers PROVE ImageOK(r)'
  <2>1. CASE r = s
    BY <1>2, <2>1, PreviewFacts DEF ImageOK, Making
  <2>2. CASE r # s
    <3>1. ImageOK(r) /\ slot'[r] = slot[r]
      BY <1>2, <2>2 DEF ImageInv
    <3> QED
      BY <1>1, <3>1 DEF ImageOK, Making
  <2> QED
    BY <2>1, <2>2
<1>7. \A q, r \in Servers : Apart(q, r)'
  BY <1>1, <1>2 DEF ImageInv, Making, Apart
<1> QED
  BY <1>3, <1>4, <1>5, <1>6, <1>7 DEF ImageInv

LEMMA TakeImages ==
  ASSUME PreviewsAssumption, TypeInv, FitInv, ImageInv, NEW s \in Servers, NEW k \in HashKeys,
         Take(s, k)
  PROVE  ImageInv'
<1>1. UNCHANGED <<cached, pictures, paid, kept, wasted>>
  BY DEF Take, books
<1>2. /\ slot[s].pc = "idle" /\ slot[s].preview = Nothing
      /\ slot'[s].pc = "look" /\ slot'[s].preview = Nothing
      /\ \A r \in Servers \ {s} : slot'[r] = slot[r]
  BY DEF Take, Free, TypeInv, FitInv, SlotOK, Carrying
<1>3. \A id \in pictures' : Claimed(id)'
  BY <1>1, <1>2 DEF ImageInv, Claimed, Making
<1>4. \A r \in Servers : ImageOK(r)'
  BY <1>1, <1>2, PreviewFacts DEF ImageInv, ImageOK, Making
<1>5. \A q, r \in Servers : Apart(q, r)'
  BY <1>1, <1>2 DEF ImageInv, Making, Apart
<1> QED
  BY <1>1, <1>3, <1>4, <1>5 DEF ImageInv, KeptOK

LEMMA ExpireImages ==
  ASSUME PreviewsAssumption, TypeInv, ImageInv, NEW k \in HashKeys, Expire(k)
  PROVE  ImageInv'
<1>1. /\ UNCHANGED <<slot, pictures, paid, kept, wasted>>
      /\ \A l \in HashKeys : cached'[l] = cached[l] \/ cached'[l] = Nothing
  BY DEF Expire, TypeInv
<1> QED
  BY <1>1 DEF ImageInv, Claimed, KeptOK, ImageOK, Making, Apart

----------------------------------------------------------------------------
(* What users are told.                                                    *)

\* Whatever runs under k is the run of the job, a run that returns has told so, and
\* a job that completed was told last.
NewsOK(k) ==
  /\ \A s \in Servers : slot[s].key = k => /\ task[k].owner = s
                                           /\ slot[s].pc = "return" => news[k] = "completed"
  /\ task[k].st = "completed" => news[k] = "completed"

\* Overlapping runs may tell anything.
NewsInv == \A k \in HashKeys \ overlaps : NewsOK(k)

\* At first no job runs.
LEMMA InitNews == PreviewsAssumption /\ Init => NewsInv
BY DEF PreviewsAssumption, Init, NewsInv, NewsOK, Free, NoJob

\* A new job is not the job of any run.
LEMMA EnqueueNews ==
  ASSUME PreviewsAssumption, TypeInv, FitInv, NewsInv, NEW a \in Asks, Enqueue(a)
  PROVE  NewsInv'
<1> SUFFICES ASSUME NEW k \in HashKeys \ overlaps PROVE NewsOK(k)'
  BY DEF NewsInv, Enqueue, books
<1>1. UNCHANGED <<slot, news>> /\ NewsOK(k) /\ TaskOK(k)
  BY DEF Enqueue, NewsInv, FitInv
<1>2. \/ task'[k] = task[k]
      \/ task[k].st = "none" /\ task'[k].st = "waiting" /\ task'[k].owner = None
  BY DEF Enqueue, NoJob, TypeInv
<1> QED
  BY <1>1, <1>2 DEF NewsOK, TaskOK

\* A job that waits has no run.
LEMMA TakeNews ==
  ASSUME PreviewsAssumption, TypeInv, FitInv, NewsInv, NEW s \in Servers, NEW k \in HashKeys,
         Take(s, k)
  PROVE  NewsInv'
<1> SUFFICES ASSUME NEW l \in HashKeys \ overlaps PROVE NewsOK(l)'
  BY DEF NewsInv, Take, books
<1>1. UNCHANGED news /\ NewsOK(l) /\ TaskOK(k) /\ task[k].st = "waiting"
  BY DEF Take, NewsInv, FitInv
<1>2. /\ slot'[s].key = k /\ slot'[s].pc = "look" /\ \A r \in Servers \ {s} : slot'[r] = slot[r]
      /\ task'[k].owner = s /\ task'[k].st = "active"
      /\ \A m \in HashKeys \ {k} : task'[m] = task[m]
  BY DEF Take, Free, TypeInv, TaskType
<1>3. task[k].owner = None /\ None \notin Servers
  BY <1>1 DEF TaskOK, PreviewsAssumption
<1> QED
  BY <1>1, <1>2, <1>3 DEF NewsOK

\* A run that goes on keeps NewsInv when it tells of success, or goes elsewhere than
\* to its return, and does not spoil what was told of a completed job.
LEMMA MovedNews ==
  ASSUME TypeInv, NewsInv, NEW s \in Servers, NEW pc, NEW preview, Moved(s, pc, preview),
         UNCHANGED <<task, overlaps>>, \A k \in HashKeys \ {slot[s].key} : news'[k] = news[k],
         \/ news'[slot[s].key] = "completed"
         \/ pc # "return" /\ news'[slot[s].key] = news[slot[s].key]
         \/ pc # "return" /\ task[slot[s].key].st # "completed"
  PROVE  NewsInv'
BY DEF NewsInv, NewsOK, Moved

LEMMA LookNews ==
  ASSUME PreviewsAssumption, TypeInv, FitInv, NewsInv, NEW s \in Servers, Look(s)
  PROVE  NewsInv'
<1>1. UNCHANGED <<task, overlaps, news>>
  BY DEF Look
<1> QED
  BY <1>1, LookMoves, MovedNews

LEMMA WriteNews ==
  ASSUME PreviewsAssumption, TypeInv, FitInv, NewsInv, NEW s \in Servers, Write(s)
  PROVE  NewsInv'
<1>1. UNCHANGED <<task, overlaps, news>>
  BY DEF Write, books
<1> QED
  BY <1>1, WriteMoves, MovedNews

\* The run that tells of its failure is the only one of its key, and its job has not ended.
LEMMA WriteFailsNews ==
  ASSUME PreviewsAssumption, TypeInv, FitInv, NewsInv, NEW s \in Servers, WriteFails(s)
  PROVE  NewsInv'
<1> DEFINE k == slot[s].key
<1>1. UNCHANGED <<task, overlaps>> /\ \A l \in HashKeys \ {k} : news'[l] = news[l]
  BY DEF WriteFails, books, TypeInv
<1>2. Moved(s, "throw", Nothing) /\ k \in HashKeys
  BY WriteFailsMoves DEF Moved
<1>3. CASE k \in overlaps
  BY <1>1, <1>2, <1>3 DEF NewsInv, NewsOK, Moved
<1>4. CASE k \notin overlaps
  <2>1. task[k].owner = s /\ TaskOK(k) /\ None \notin Servers
    BY <1>2, <1>4 DEF NewsInv, NewsOK, FitInv, PreviewsAssumption
  <2>2. task[k].st # "completed"
    BY <2>1 DEF TaskOK
  <2> QED
    BY <1>1, <1>2, <2>2, MovedNews
<1> QED
  BY <1>3, <1>4

LEMMA FieldsNews ==
  ASSUME PreviewsAssumption, TypeInv, FitInv, NewsInv, NEW s \in Servers, Fields(s)
  PROVE  NewsInv'
<1>1. UNCHANGED <<task, overlaps, news>>
  BY DEF Fields, books
<1> QED
  BY <1>1, FieldsMoves, MovedNews

LEMMA FieldsFailNews ==
  ASSUME PreviewsAssumption, TypeInv, FitInv, NewsInv, NEW s \in Servers, FieldsFail(s)
  PROVE  NewsInv'
<1> DEFINE k == slot[s].key
<1>1. UNCHANGED <<task, overlaps>> /\ \A l \in HashKeys \ {k} : news'[l] = news[l]
  BY DEF FieldsFail, TypeInv
<1>2. Moved(s, "throw", Nothing) /\ k \in HashKeys
  BY FieldsFailMoves DEF Moved
<1>3. CASE k \in overlaps
  BY <1>1, <1>2, <1>3 DEF NewsInv, NewsOK, Moved
<1>4. CASE k \notin overlaps
  <2>1. task[k].owner = s /\ TaskOK(k) /\ None \notin Servers
    BY <1>2, <1>4 DEF NewsInv, NewsOK, FitInv, PreviewsAssumption
  <2>2. task[k].st # "completed"
    BY <2>1 DEF TaskOK
  <2> QED
    BY <1>1, <1>2, <2>2, MovedNews
<1> QED
  BY <1>3, <1>4

LEMMA PictureNews ==
  ASSUME PreviewsAssumption, TypeInv, FitInv, NewsInv, NEW s \in Servers, Picture(s)
  PROVE  NewsInv'
<1>1. UNCHANGED <<task, overlaps, news>>
  BY DEF Picture, books
<1> QED
  BY <1>1, PictureMoves, MovedNews

LEMMA PictureFailsNews ==
  ASSUME PreviewsAssumption, TypeInv, FitInv, NewsInv, NEW s \in Servers, PictureFails(s)
  PROVE  NewsInv'
<1>1. UNCHANGED <<task, overlaps, news>>
  BY DEF PictureFails
<1> QED
  BY <1>1, PictureFailsMoves, MovedNews

LEMMA CacheNews ==
  ASSUME PreviewsAssumption, TypeInv, FitInv, NewsInv, NEW s \in Servers, Cache(s)
  PROVE  NewsInv'
<1>1. UNCHANGED <<task, overlaps, news>>
  BY DEF Cache
<1> QED
  BY <1>1, CacheMoves, MovedNews

LEMMA TellNews ==
  ASSUME PreviewsAssumption, TypeInv, FitInv, NewsInv, NEW s \in Servers, Tell(s)
  PROVE  NewsInv'
<1>1. PICK preview \in Previews : Moved(s, "return", preview)
  BY TellMoves
<1>2. /\ UNCHANGED <<task, overlaps>>
      /\ \A k \in HashKeys \ {slot[s].key} : news'[k] = news[k]
      /\ news'[slot[s].key] = "completed"
  BY <1>1 DEF Tell, books, TypeInv, Moved
<1> QED
  BY <1>1, <1>2, MovedNews

\* A slot becomes free, and the job of its key, if it was its own, gets another state.
Freed(s) ==
  /\ slot[s].key \in HashKeys /\ slot[s].pc # "idle"
  /\ slot' = [slot EXCEPT ![s] = Free]
  /\ \A l \in HashKeys :
       \/ task'[l].st = task[l].st /\ task'[l].owner = task[l].owner
       \/ /\ l = slot[s].key /\ task[l].owner = s
          /\ task'[l].owner = None
          /\ task'[l].st = "completed" => slot[s].pc = "return"

\* Return and Throw free the slot, and only the owner changes the job.
LEMMA ReturnFrees ==
  ASSUME PreviewsAssumption, TypeInv, FitInv, NEW s \in Servers, Return(s)
  PROVE  Freed(s) /\ slot[s].pc = "return"
<1> DEFINE k == slot[s].key
           j == [task[k] EXCEPT !.st = "completed", !.owner = None, !.result = slot[s].preview]
<1>1. /\ slot' = [slot EXCEPT ![s] = Free] /\ slot[s].pc = "return" /\ k \in HashKeys
      /\ task[k] \in TaskType
      /\ (task[k].owner = s /\ task' = [task EXCEPT ![k] = j]) \/ UNCHANGED task
  BY SlotFacts DEF Return, Ends, TypeInv
<1>2. j.st = "completed" /\ j.owner = None
  BY <1>1 DEF TaskType
<1> QED
  BY <1>1, <1>2 DEF Freed, TypeInv

LEMMA ThrowFrees ==
  ASSUME PreviewsAssumption, TypeInv, FitInv, NEW s \in Servers, Throw(s)
  PROVE  Freed(s) /\ slot[s].pc = "throw"
<1> DEFINE k == slot[s].key
           j == [task[k] EXCEPT !.tries = task[k].tries + 1, !.owner = None]
           w == [j EXCEPT !.st = "waiting"]
           f == [j EXCEPT !.st = "failed"]
<1>1. /\ slot' = [slot EXCEPT ![s] = Free] /\ slot[s].pc = "throw" /\ k \in HashKeys
      /\ task[k] \in TaskType
      /\ \/ UNCHANGED task
         \/ task[k].owner = s /\ task' = [task EXCEPT ![k] = w]
         \/ task[k].owner = s /\ task' = [task EXCEPT ![k] = f]
  BY SlotFacts DEF Throw, Ends, TypeInv
<1>2. w.st = "waiting" /\ w.owner = None /\ f.st = "failed" /\ f.owner = None
  BY <1>1 DEF TaskType
<1> HIDE DEF w, f
<1> QED
  BY <1>1, <1>2 DEF Freed, TypeInv

\* When a run ends, nothing runs under its key any longer.
LEMMA FreedNews ==
  ASSUME PreviewsAssumption, TypeInv, NewsInv, NEW s \in Servers, Freed(s), UNCHANGED <<news,
         overlaps>>
  PROVE  NewsInv'
<1> SUFFICES ASSUME NEW k \in HashKeys \ overlaps PROVE NewsOK(k)'
  BY DEF NewsInv
<1>1. NewsOK(k)
  BY DEF NewsInv
<1>2. /\ slot'[s].key = None /\ None \notin HashKeys
      /\ \A r \in Servers \ {s} : slot'[r] = slot[r]
  BY DEF Freed, TypeInv, Free, PreviewsAssumption
<1> QED
  BY <1>1, <1>2 DEF NewsOK, Freed

LEMMA CrashNews ==
  ASSUME PreviewsAssumption, TypeInv, FitInv, NewsInv, NEW s \in Servers, Crash(s)
  PROVE  NewsInv'
<1>1. /\ UNCHANGED <<task, news, overlaps>>
      /\ slot'[s].key = None /\ None \notin HashKeys
      /\ \A r \in Servers \ {s} : slot'[r] = slot[r]
  BY DEF Crash, TypeInv, Free, PreviewsAssumption
<1> QED
  BY <1>1 DEF NewsInv, NewsOK

\* A stalled job has no run, or overlaps are marked.
LEMMA RecoverNews ==
  ASSUME PreviewsAssumption, TypeInv, FitInv, NewsInv, NEW k \in HashKeys, Recover(k)
  PROVE  NewsInv'
<1>1. /\ UNCHANGED <<slot, news, overlaps, hash>>
      /\ task[k].st = "active" /\ slot[task[k].owner].key # k /\ Stalled(k)
  BY DEF Recover, books
<1>2. task'[k].st \in {"waiting", "failed"} /\ \A l \in HashKeys \ {k} : task'[l] = task[l]
  BY <1>1, StalledFits
<1> QED
  BY <1>1, <1>2 DEF NewsInv, NewsOK

LEMMA LoseLockNews ==
  ASSUME PreviewsAssumption, TypeInv, FitInv, NewsInv, NEW k \in HashKeys, LoseLock(k)
  PROVE  NewsInv'
<1>1. /\ UNCHANGED <<slot, news, hash>> /\ overlaps' = overlaps \union {k}
      /\ task[k].st = "active" /\ Stalled(k)
  BY DEF LoseLock
<1>2. \A l \in HashKeys \ {k} : task'[l] = task[l]
  BY <1>1, StalledFits
<1> QED
  BY <1>1, <1>2 DEF NewsInv, NewsOK

\* A job that has ended has no run.
LEMMA RemoveNews ==
  ASSUME PreviewsAssumption, TypeInv, FitInv, NewsInv, NEW k \in HashKeys, Remove(k)
  PROVE  NewsInv'
<1>1. /\ UNCHANGED <<slot, news, overlaps>>
      /\ TaskOK(k) /\ task[k].st \in {"completed", "failed"} /\ None \notin Servers
      /\ task'[k].st = "none" /\ \A l \in HashKeys \ {k} : task'[l] = task[l]
  BY DEF Remove, books, FitInv, TypeInv, NoJob, PreviewsAssumption
<1>2. task[k].owner = None
  BY <1>1 DEF TaskOK
<1> QED
  BY <1>1, <1>2 DEF NewsInv, NewsOK

----------------------------------------------------------------------------
(* What is paid.                                                           *)

\* The run of the job's owner is at one of these awaits.
Runs(k, pcs) ==
  /\ task[k].owner \in Servers
  /\ slot[task[k].owner].key = k
  /\ slot[task[k].owner].pc \in pcs

\* The article is paid and not cached yet.
Paints(k) == Runs(k, {"seo", "picture", "cache"})
\* The article is about to be paid.
Writes(k) == Runs(k, {"write"})

\* Runs that lost their job before they paid an article, and may pay it yet.
Strays(k) ==
  {s \in Servers : slot[s].key = k /\ slot[s].pc \in {"look", "write"} /\ task[k].owner # s}

\* Whether somebody will pay again: nothing is cached or on its way to the cache,
\* or the run of the job is past its look.
Due(k) == IF (cached[k] = Nothing /\ ~Paints(k)) \/ Writes(k) THEN 1 ELSE 0

\* The account of k: what was paid and what may be paid without a further excuse is
\* one article, and one for every excuse.
PayOK(k) == paid[k] + Cardinality(Strays(k)) + Due(k) <= 1 + excuses[k]

PayInv == \A k \in HashKeys : PayOK(k)

\* There are not more strays than servers.
LEMMA StraysFinite ==
  ASSUME PreviewsAssumption, NEW k
  PROVE  /\ IsFiniteSet(Strays(k)) /\ Cardinality(Strays(k)) \in Nat
         /\ IsFiniteSet(Strays(k)') /\ Cardinality(Strays(k)') \in Nat
<1>1. Strays(k) \subseteq Servers /\ Strays(k)' \subseteq Servers /\ IsFiniteSet(Servers)
  BY DEF Strays, PreviewsAssumption
<1> QED
  BY <1>1, FS_Subset, FS_CardinalityType

\* At first one article is due under every key.
LEMMA InitPays == PreviewsAssumption /\ Init => PayInv
<1> SUFFICES ASSUME PreviewsAssumption, Init, NEW k \in HashKeys PROVE PayOK(k)
  BY DEF PayInv
<1>1. Strays(k) = {} /\ paid[k] = 0 /\ excuses[k] = 0
  BY DEF Init, Strays, Free, PreviewsAssumption
<1>2. Cardinality(Strays(k)) = 0
  BY <1>1, FS_EmptySet
<1>3. Due(k) \in {0, 1}
  BY DEF Due
<1> QED
  BY <1>1, <1>2, <1>3 DEF PayOK

\* Nothing that is counted under k changes.
Same(k) == Strays(k)' = Strays(k) /\ (Paints(k)' <=> Paints(k)) /\ (Writes(k)' <=> Writes(k))

\* It does not when the runs under k and the owner of its job stay.
LEMMA AsidePays ==
  ASSUME NEW k \in HashKeys, task'[k].owner = task[k].owner,
         \A r \in Servers : slot[r].key = k \/ slot'[r].key = k => slot'[r] = slot[r]
  PROVE  Same(k)
<1>1. Strays(k)' = Strays(k)
  BY DEF Strays
<1>2. \A pcs : Runs(k, pcs)' <=> Runs(k, pcs)
  BY DEF Runs
<1> QED
  BY <1>1, <1>2 DEF Same, Paints, Writes

\* Then the account stays, too.
LEMMA SamePays ==
  ASSUME TypeInv, PayInv, NEW k \in HashKeys, Same(k), cached'[k] = cached[k],
         paid'[k] = paid[k], excuses'[k] = excuses[k]
  PROVE  PayOK(k)'
BY DEF PayInv, PayOK, Due, Same

\* A new job has no owner yet.
LEMMA EnqueuePays ==
  ASSUME PreviewsAssumption, TypeInv, FitInv, PayInv, NEW a \in Asks, Enqueue(a)
  PROVE  PayInv'
<1> SUFFICES ASSUME NEW k \in HashKeys PROVE PayOK(k)'
  BY DEF PayInv
<1>1. UNCHANGED <<slot, cached, paid, excuses>> /\ TaskOK(k)
  BY DEF Enqueue, FitInv, books
<1>2. task'[k] = task[k] \/ (task[k].st = "none" /\ task'[k].owner = None)
  BY DEF Enqueue, NoJob, TypeInv
<1>3. task'[k].owner = task[k].owner
  BY <1>1, <1>2 DEF TaskOK
<1> QED
  BY <1>1, <1>3, AsidePays, SamePays

\* A job that waits has no owner, and its new owner looks first.
LEMMA TakePays ==
  ASSUME PreviewsAssumption, TypeInv, FitInv, PayInv, NEW s \in Servers, NEW k \in HashKeys,
         Take(s, k)
  PROVE  PayInv'
<1> SUFFICES ASSUME NEW l \in HashKeys PROVE PayOK(l)'
  BY DEF PayInv
<1>1. /\ UNCHANGED <<cached, paid, excuses>>
      /\ slot[s].key = None /\ None \notin HashKeys /\ None \notin Servers
      /\ task[k].owner = None
      /\ slot'[s].key = k /\ slot'[s].pc = "look" /\ \A r \in Servers \ {s} : slot'[r] = slot[r]
      /\ task'[k].owner = s /\ \A m \in HashKeys \ {k} : task'[m] = task[m]
  BY DEF Take, Free, TypeInv, TaskType, FitInv, SlotOK, TaskOK, PreviewsAssumption, books
<1>2. CASE l # k
  BY <1>1, <1>2, AsidePays, SamePays
<1>3. CASE l = k
  <2>1. Strays(k)' = Strays(k)
    BY <1>1 DEF Strays
  <2>2. ~Paints(k) /\ ~Paints(k)' /\ ~Writes(k) /\ ~Writes(k)'
    BY <1>1 DEF Paints, Writes, Runs
  <2>3. Same(k)
    BY <2>1, <2>2 DEF Same
  <2> QED
    BY <1>1, <1>3, <2>3, SamePays
<1> QED
  BY <1>2, <1>3

\* A run changes nothing under other keys.
LEMMA MovedAside ==
  ASSUME NEW s \in Servers, NEW pc, NEW preview, Moved(s, pc, preview), UNCHANGED task,
         NEW k \in HashKeys, k # slot[s].key
  PROVE  Same(k)
<1>1. \A r \in Servers : slot[r].key = k \/ slot'[r].key = k => slot'[r] = slot[r]
  BY DEF Moved
<1> QED
  BY <1>1, AsidePays

\* What a step of the run in s does to the account of its key.
LEMMA MovedPays ==
  ASSUME PreviewsAssumption, TypeInv, NEW s \in Servers, NEW pc \in RunStates, NEW preview,
         Moved(s, pc, preview), UNCHANGED task, slot[s].pc \in {"look",
         "write"} \/ pc \notin {"look", "write"}, NEW k, k = slot[s].key
  PROVE  /\ task[k].owner = s =>
              /\ Strays(k)' = Strays(k)
              /\ Paints(k) <=> slot[s].pc \in {"seo", "picture", "cache"}
              /\ Paints(k)' <=> pc \in {"seo", "picture", "cache"}
              /\ Writes(k) <=> slot[s].pc = "write"
              /\ Writes(k)' <=> pc = "write"
         /\ task[k].owner # s =>
              /\ (Paints(k)' <=> Paints(k)) /\ (Writes(k)' <=> Writes(k))
              /\ IF slot[s].pc \in {"look", "write"} /\ pc \notin {"look", "write"}
                 THEN Cardinality(Strays(k)') = Cardinality(Strays(k)) - 1
                 ELSE Strays(k)' = Strays(k)
<1>1. CASE task[k].owner = s
  <2>1. Strays(k)' = Strays(k)
    BY <1>1 DEF Moved, Strays
  <2> QED
    BY <1>1, <2>1 DEF Moved, Paints, Writes, Runs
<1>2. CASE task[k].owner # s
  <2>1. \A pcs : Runs(k, pcs)' <=> Runs(k, pcs)
    BY <1>2 DEF Runs, Moved
  <2>2. CASE slot[s].pc \in {"look", "write"} /\ pc \notin {"look", "write"}
    <3>1. Strays(k)' = Strays(k) \ {s} /\ s \in Strays(k)
      BY <1>2, <2>2 DEF Moved, Strays
    <3> QED
      BY <1>2, <2>1, <2>2, <3>1, StraysFinite, FS_RemoveElement DEF Paints, Writes
  <2>3. CASE ~(slot[s].pc \in {"look", "write"} /\ pc \notin {"look", "write"})
    <3>1. Strays(k)' = Strays(k)
      BY <1>2, <2>3 DEF Moved, Strays
    <3> QED
      BY <1>2, <2>1, <2>3, <3>1 DEF Paints, Writes
  <2> QED
    BY <2>2, <2>3
<1> QED
  BY <1>1, <1>2

\* The steps of a run, one by one.  Who finds nothing in the cache has his article
\* due already, unless he is a stray.
LEMMA LookPays ==
  ASSUME PreviewsAssumption, TypeInv, FitInv, PayInv, NEW s \in Servers, Look(s)
  PROVE  PayInv'
<1>0. PICK k \in HashKeys : k = slot[s].key
  BY SlotFacts DEF Look
<1>1. UNCHANGED <<task, cached, paid>> /\ slot[s].pc = "look"
      /\ "tell" \in RunStates /\ "write" \in RunStates
      /\ \/ UNCHANGED excuses
         \/ excuses' = [excuses EXCEPT ![k] = @ + 1]
  BY <1>0 DEF Look, RunStates, Excuse
<1>2. \/ cached[k] # Nothing /\ UNCHANGED excuses /\ Moved(s, "tell", cached[k])
      \/ cached[k] = Nothing /\ UNCHANGED excuses /\ Moved(s, "write", Nothing)
      \/ /\ cached[k] # Nothing /\ excuses' = [excuses EXCEPT ![k] = @ + 1]
         /\ Moved(s, "write", Nothing)
  BY <1>0, LookMoves DEF Excuse
<1>3. ASSUME NEW l \in HashKeys, l # k PROVE PayOK(l)'
  <2>1. Same(l)
    BY <1>0, <1>1, <1>2, <1>3, MovedAside
  <2>2. cached'[l] = cached[l] /\ paid'[l] = paid[l] /\ excuses'[l] = excuses[l]
    BY <1>1, <1>3 DEF TypeInv
  <2> QED
    BY <2>1, <2>2, SamePays
<1>4. PayOK(k)'
  <2>1. /\ paid[k] \in Nat /\ excuses[k] \in Nat /\ Cardinality(Strays(k)) \in Nat
        /\ Cardinality(Strays(k)') \in Nat /\ PayOK(k)
    BY StraysFinite DEF TypeInv, PayInv
  <2> QED
    BY <1>0, <1>1, <1>2, <2>1, MovedPays DEF PayOK, Due, TypeInv
<1> QED
  BY <1>3, <1>4 DEF PayInv

\* The owner pays what was due, a stray is no stray any longer.
LEMMA WritePays ==
  ASSUME PreviewsAssumption, TypeInv, FitInv, PayInv, NEW s \in Servers, Write(s)
  PROVE  PayInv'
<1>0. PICK k \in HashKeys : k = slot[s].key
  BY SlotFacts DEF Write
<1>1. /\ UNCHANGED <<task, cached, excuses>> /\ slot[s].pc = "write"
      /\ "seo" \in RunStates /\ paid' = [paid EXCEPT ![k] = @ + 1]
  BY <1>0 DEF Write, RunStates, books
<1>2. \E preview : Moved(s, "seo", preview)
  BY WriteMoves
<1>3. ASSUME NEW l \in HashKeys, l # k PROVE PayOK(l)'
  <2>1. Same(l)
    BY <1>0, <1>1, <1>2, <1>3, MovedAside
  <2>2. cached'[l] = cached[l] /\ paid'[l] = paid[l] /\ excuses'[l] = excuses[l]
    BY <1>1, <1>3 DEF TypeInv
  <2> QED
    BY <2>1, <2>2, SamePays
<1>4. PayOK(k)'
  <2>1. /\ paid[k] \in Nat /\ excuses[k] \in Nat /\ Cardinality(Strays(k)) \in Nat
        /\ Cardinality(Strays(k)') \in Nat /\ PayOK(k)
    BY StraysFinite DEF TypeInv, PayInv
  <2> QED
    BY <1>0, <1>1, <1>2, <2>1, MovedPays DEF PayOK, Due, TypeInv
<1> QED
  BY <1>3, <1>4 DEF PayInv

LEMMA WriteFailsPays ==
  ASSUME PreviewsAssumption, TypeInv, FitInv, PayInv, NEW s \in Servers, WriteFails(s)
  PROVE  PayInv'
<1>0. PICK k \in HashKeys : k = slot[s].key
  BY SlotFacts DEF WriteFails
<1>1. /\ UNCHANGED <<task, cached, excuses, paid>> /\ slot[s].pc = "write"
      /\ "throw" \in RunStates
  BY <1>0 DEF WriteFails, RunStates, books
<1>2. \E preview : Moved(s, "throw", preview)
  BY WriteFailsMoves
<1>3. ASSUME NEW l \in HashKeys, l # k PROVE PayOK(l)'
  <2>1. Same(l)
    BY <1>0, <1>1, <1>2, <1>3, MovedAside
  <2>2. cached'[l] = cached[l] /\ paid'[l] = paid[l] /\ excuses'[l] = excuses[l]
    BY <1>1, <1>3 DEF TypeInv
  <2> QED
    BY <2>1, <2>2, SamePays
<1>4. PayOK(k)'
  <2>1. /\ paid[k] \in Nat /\ excuses[k] \in Nat /\ Cardinality(Strays(k)) \in Nat
        /\ Cardinality(Strays(k)') \in Nat /\ PayOK(k)
    BY StraysFinite DEF TypeInv, PayInv
  <2> QED
    BY <1>0, <1>1, <1>2, <2>1, MovedPays DEF PayOK, Due, TypeInv
<1> QED
  BY <1>3, <1>4 DEF PayInv

LEMMA FieldsPays ==
  ASSUME PreviewsAssumption, TypeInv, FitInv, PayInv, NEW s \in Servers, Fields(s)
  PROVE  PayInv'
<1>0. PICK k \in HashKeys : k = slot[s].key
  BY SlotFacts DEF Fields
<1>1. /\ UNCHANGED <<task, cached, excuses, paid>> /\ slot[s].pc = "seo"
      /\ "picture" \in RunStates
  BY <1>0 DEF Fields, RunStates, books
<1>2. \E preview : Moved(s, "picture", preview)
  BY FieldsMoves
<1>3. ASSUME NEW l \in HashKeys, l # k PROVE PayOK(l)'
  <2>1. Same(l)
    BY <1>0, <1>1, <1>2, <1>3, MovedAside
  <2>2. cached'[l] = cached[l] /\ paid'[l] = paid[l] /\ excuses'[l] = excuses[l]
    BY <1>1, <1>3 DEF TypeInv
  <2> QED
    BY <2>1, <2>2, SamePays
<1>4. PayOK(k)'
  <2>1. /\ paid[k] \in Nat /\ excuses[k] \in Nat /\ Cardinality(Strays(k)) \in Nat
        /\ Cardinality(Strays(k)') \in Nat /\ PayOK(k)
    BY StraysFinite DEF TypeInv, PayInv
  <2> QED
    BY <1>0, <1>1, <1>2, <2>1, MovedPays DEF PayOK, Due, TypeInv
<1> QED
  BY <1>3, <1>4 DEF PayInv

\* An article that is lost is due again, and excused.
LEMMA FieldsFailPays ==
  ASSUME PreviewsAssumption, TypeInv, FitInv, PayInv, NEW s \in Servers, FieldsFail(s)
  PROVE  PayInv'
<1>0. PICK k \in HashKeys : k = slot[s].key
  BY SlotFacts DEF FieldsFail
<1>1. /\ UNCHANGED <<task, cached, paid>> /\ slot[s].pc = "seo"
      /\ "throw" \in RunStates /\ excuses' = [excuses EXCEPT ![k] = @ + 1]
  BY <1>0 DEF FieldsFail, RunStates, Excuse
<1>2. \E preview : Moved(s, "throw", preview)
  BY FieldsFailMoves
<1>3. ASSUME NEW l \in HashKeys, l # k PROVE PayOK(l)'
  <2>1. Same(l)
    BY <1>0, <1>1, <1>2, <1>3, MovedAside
  <2>2. cached'[l] = cached[l] /\ paid'[l] = paid[l] /\ excuses'[l] = excuses[l]
    BY <1>1, <1>3 DEF TypeInv
  <2> QED
    BY <2>1, <2>2, SamePays
<1>4. PayOK(k)'
  <2>1. /\ paid[k] \in Nat /\ excuses[k] \in Nat /\ Cardinality(Strays(k)) \in Nat
        /\ Cardinality(Strays(k)') \in Nat /\ PayOK(k)
    BY StraysFinite DEF TypeInv, PayInv
  <2> QED
    BY <1>0, <1>1, <1>2, <2>1, MovedPays DEF PayOK, Due, TypeInv
<1> QED
  BY <1>3, <1>4 DEF PayInv

LEMMA PicturePays ==
  ASSUME PreviewsAssumption, TypeInv, FitInv, PayInv, NEW s \in Servers, Picture(s)
  PROVE  PayInv'
<1>0. PICK k \in HashKeys : k = slot[s].key
  BY SlotFacts DEF Picture
<1>1. /\ UNCHANGED <<task, cached, excuses, paid>> /\ slot[s].pc = "picture"
      /\ "cache" \in RunStates
  BY <1>0 DEF Picture, RunStates, books
<1>2. \E preview : Moved(s, "cache", preview)
  BY PictureMoves
<1>3. ASSUME NEW l \in HashKeys, l # k PROVE PayOK(l)'
  <2>1. Same(l)
    BY <1>0, <1>1, <1>2, <1>3, MovedAside
  <2>2. cached'[l] = cached[l] /\ paid'[l] = paid[l] /\ excuses'[l] = excuses[l]
    BY <1>1, <1>3 DEF TypeInv
  <2> QED
    BY <2>1, <2>2, SamePays
<1>4. PayOK(k)'
  <2>1. /\ paid[k] \in Nat /\ excuses[k] \in Nat /\ Cardinality(Strays(k)) \in Nat
        /\ Cardinality(Strays(k)') \in Nat /\ PayOK(k)
    BY StraysFinite DEF TypeInv, PayInv
  <2> QED
    BY <1>0, <1>1, <1>2, <2>1, MovedPays DEF PayOK, Due, TypeInv
<1> QED
  BY <1>3, <1>4 DEF PayInv

LEMMA PictureFailsPays ==
  ASSUME PreviewsAssumption, TypeInv, FitInv, PayInv, NEW s \in Servers, PictureFails(s)
  PROVE  PayInv'
<1>0. PICK k \in HashKeys : k = slot[s].key
  BY SlotFacts DEF PictureFails
<1>1. /\ UNCHANGED <<task, cached, excuses, paid>> /\ slot[s].pc = "picture"
      /\ "cache" \in RunStates
  BY <1>0 DEF PictureFails, RunStates
<1>2. \E preview : Moved(s, "cache", preview)
  BY PictureFailsMoves
<1>3. ASSUME NEW l \in HashKeys, l # k PROVE PayOK(l)'
  <2>1. Same(l)
    BY <1>0, <1>1, <1>2, <1>3, MovedAside
  <2>2. cached'[l] = cached[l] /\ paid'[l] = paid[l] /\ excuses'[l] = excuses[l]
    BY <1>1, <1>3 DEF TypeInv
  <2> QED
    BY <2>1, <2>2, SamePays
<1>4. PayOK(k)'
  <2>1. /\ paid[k] \in Nat /\ excuses[k] \in Nat /\ Cardinality(Strays(k)) \in Nat
        /\ Cardinality(Strays(k)') \in Nat /\ PayOK(k)
    BY StraysFinite DEF TypeInv, PayInv
  <2> QED
    BY <1>0, <1>1, <1>2, <2>1, MovedPays DEF PayOK, Due, TypeInv
<1> QED
  BY <1>3, <1>4 DEF PayInv

\* Nothing is due once the preview is in the cache.
LEMMA CachePays ==
  ASSUME PreviewsAssumption, TypeInv, FitInv, PayInv, NEW s \in Servers, Cache(s)
  PROVE  PayInv'
<1>0. PICK k \in HashKeys : k = slot[s].key
  BY SlotFacts DEF Cache
<1>1. /\ UNCHANGED <<task, paid>> /\ slot[s].pc = "cache"
      /\ "tell" \in RunStates
      /\ \/ /\ UNCHANGED excuses /\ slot[s].preview # Nothing
            /\ cached' = [cached EXCEPT ![k] = slot[s].preview]
         \/ UNCHANGED cached /\ excuses' = [excuses EXCEPT ![k] = @ + 1]
  BY <1>0, CarriedFacts DEF Cache, RunStates, Excuse, Carrying
<1>2. \E preview : Moved(s, "tell", preview)
  BY CacheMoves
<1>3. ASSUME NEW l \in HashKeys, l # k PROVE PayOK(l)'
  <2>1. Same(l)
    BY <1>0, <1>1, <1>2, <1>3, MovedAside
  <2>2. cached'[l] = cached[l] /\ paid'[l] = paid[l] /\ excuses'[l] = excuses[l]
    BY <1>1, <1>3 DEF TypeInv
  <2> QED
    BY <2>1, <2>2, SamePays
<1>4. PayOK(k)'
  <2>1. /\ paid[k] \in Nat /\ excuses[k] \in Nat /\ Cardinality(Strays(k)) \in Nat
        /\ Cardinality(Strays(k)') \in Nat /\ PayOK(k)
    BY StraysFinite DEF TypeInv, PayInv
  <2> QED
    BY <1>0, <1>1, <1>2, <2>1, MovedPays DEF PayOK, Due, TypeInv
<1> QED
  BY <1>3, <1>4 DEF PayInv

LEMMA TellPays ==
  ASSUME PreviewsAssumption, TypeInv, FitInv, PayInv, NEW s \in Servers, Tell(s)
  PROVE  PayInv'
<1>0. PICK k \in HashKeys : k = slot[s].key
  BY SlotFacts DEF Tell
<1>1. /\ UNCHANGED <<task, cached, excuses, paid>> /\ slot[s].pc = "tell"
      /\ "return" \in RunStates
  BY <1>0 DEF Tell, RunStates, books
<1>2. \E preview : Moved(s, "return", preview)
  BY TellMoves
<1>3. ASSUME NEW l \in HashKeys, l # k PROVE PayOK(l)'
  <2>1. Same(l)
    BY <1>0, <1>1, <1>2, <1>3, MovedAside
  <2>2. cached'[l] = cached[l] /\ paid'[l] = paid[l] /\ excuses'[l] = excuses[l]
    BY <1>1, <1>3 DEF TypeInv
  <2> QED
    BY <2>1, <2>2, SamePays
<1>4. PayOK(k)'
  <2>1. /\ paid[k] \in Nat /\ excuses[k] \in Nat /\ Cardinality(Strays(k)) \in Nat
        /\ Cardinality(Strays(k)') \in Nat /\ PayOK(k)
    BY StraysFinite DEF TypeInv, PayInv
  <2> QED
    BY <1>0, <1>1, <1>2, <2>1, MovedPays DEF PayOK, Due, TypeInv
<1> QED
  BY <1>3, <1>4 DEF PayInv

\* A run that returns or throws has nothing on its account.
LEMMA FreedPays ==
  ASSUME PreviewsAssumption, TypeInv, FitInv, PayInv, NEW s \in Servers, Freed(s),
         slot[s].pc \in {"return", "throw"}, UNCHANGED <<cached, paid, excuses>>
  PROVE  PayInv'
<1> SUFFICES ASSUME NEW k \in HashKeys PROVE PayOK(k)'
  BY DEF PayInv
<1>1. /\ slot'[s].key = None /\ None \notin HashKeys /\ None \notin Servers
      /\ \A r \in Servers \ {s} : slot'[r] = slot[r]
  BY DEF Freed, TypeInv, Free, PreviewsAssumption
<1>2. \/ task'[k].owner = task[k].owner
      \/ k = slot[s].key /\ task[k].owner = s /\ task'[k].owner = None
  BY DEF Freed
<1>3. Strays(k)' = Strays(k)
  BY <1>1, <1>2 DEF Strays
<1>4. (Paints(k)' <=> Paints(k)) /\ (Writes(k)' <=> Writes(k))
  BY <1>1, <1>2 DEF Paints, Writes, Runs
<1>5. Same(k)
  BY <1>3, <1>4 DEF Same
<1> QED
  BY <1>5, SamePays

\* An article that is lost with its run is due again, and excused.
LEMMA CrashPays ==
  ASSUME PreviewsAssumption, TypeInv, FitInv, PayInv, NEW s \in Servers, Crash(s)
  PROVE  PayInv'
<1> SUFFICES ASSUME NEW k \in HashKeys PROVE PayOK(k)'
  BY DEF PayInv
<1>1. /\ UNCHANGED <<task, cached, paid>>
      /\ slot'[s].key = None /\ slot'[s].pc = "idle" /\ None \notin HashKeys
      /\ \A r \in Servers \ {s} : slot'[r] = slot[r]
  BY DEF Crash, TypeInv, Free, PreviewsAssumption
<1>2. /\ excuses'[k] = excuses[k] \/ excuses'[k] = excuses[k] + 1
      /\ slot[s].key = k /\ slot[s].pc \in {"seo", "picture", "cache"} => excuses'[k] = excuses[k] + 1
  BY DEF Crash, Cut, Excuse, TypeInv
<1>3. Cardinality(Strays(k)') <= Cardinality(Strays(k))
  <2>1. Strays(k)' \subseteq Strays(k)
    BY <1>1 DEF Strays
  <2> QED
    BY <2>1, StraysFinite, FS_Subset
<1>4. \/ Due(k)' <= Due(k)
      \/ Due(k)' = 1 /\ Due(k) = 0 /\ slot[s].key = k /\ slot[s].pc \in {"seo", "picture", "cache"}
  <2>1. Writes(k)' => Writes(k)
    BY <1>1 DEF Writes, Runs
  <2>2. Paints(k) => Paints(k)' \/ (slot[s].key = k /\ slot[s].pc \in {"seo", "picture", "cache"})
    BY <1>1 DEF Paints, Runs
  <2> QED
    BY <1>1, <2>1, <2>2 DEF Due
<1>5. /\ paid[k] \in Nat /\ excuses[k] \in Nat /\ Cardinality(Strays(k)) \in Nat
      /\ Cardinality(Strays(k)') \in Nat /\ Due(k) \in {0, 1} /\ Due(k)' \in {0, 1} /\ PayOK(k)
  BY StraysFinite DEF TypeInv, PayInv, Due
<1> QED
  BY <1>1, <1>2, <1>3, <1>4, <1>5 DEF PayOK

\* The owner of a stalled job has left it before.
LEMMA RecoverPays ==
  ASSUME PreviewsAssumption, TypeInv, FitInv, PayInv, NEW k \in HashKeys, Recover(k)
  PROVE  PayInv'
<1> SUFFICES ASSUME NEW l \in HashKeys PROVE PayOK(l)'
  BY DEF PayInv
<1>1. /\ UNCHANGED <<hash, slot, cached, paid, excuses>> /\ None \notin Servers
      /\ task[k].st = "active" /\ slot[task[k].owner].key # k /\ Stalled(k)
  BY DEF Recover, books, PreviewsAssumption
<1>2. task'[k].owner = None /\ \A m \in HashKeys \ {k} : task'[m] = task[m]
  BY <1>1, StalledFits
<1>3. CASE l # k
  BY <1>1, <1>2, <1>3, AsidePays, SamePays
<1>4. CASE l = k
  <2>1. Strays(k)' = Strays(k)
    BY <1>1, <1>2 DEF Strays
  <2>2. ~Paints(k) /\ ~Paints(k)' /\ ~Writes(k) /\ ~Writes(k)'
    BY <1>1, <1>2 DEF Paints, Writes, Runs
  <2>3. Same(k)
    BY <2>1, <2>2 DEF Same
  <2> QED
    BY <1>1, <1>4, <2>3, SamePays
<1> QED
  BY <1>3, <1>4

\* A run that loses its job becomes a stray, or what it has paid does not count any
\* longer; one of the two, and excused.
LEMMA LoseLockPays ==
  ASSUME PreviewsAssumption, TypeInv, FitInv, PayInv, NEW k \in HashKeys, LoseLock(k)
  PROVE  PayInv'
<1> SUFFICES ASSUME NEW l \in HashKeys PROVE PayOK(l)'
  BY DEF PayInv
<1> DEFINE o == task[k].owner
<1>1. /\ UNCHANGED <<hash, slot, cached, paid>> /\ None \notin Servers
      /\ task[k].st = "active" /\ slot[o].key = k /\ Stalled(k)
      /\ excuses' = [excuses EXCEPT ![k] = @ + 1]
  BY DEF LoseLock, Excuse, PreviewsAssumption
<1>2. task'[k].owner = None /\ \A m \in HashKeys \ {k} : task'[m] = task[m]
  BY <1>1, StalledFits
<1>3. CASE l # k
  <2>1. excuses'[l] = excuses[l]
    BY <1>1, <1>3 DEF TypeInv
  <2> QED
    BY <1>1, <1>2, <1>3, <2>1, AsidePays, SamePays
<1>4. CASE l = k
  <2>1. o \in Servers
    BY <1>1 DEF TypeInv, FitInv, TaskOK, TaskType
  <2>2. ~Paints(k)' /\ ~Writes(k)'
    BY <1>1, <1>2 DEF Paints, Writes, Runs
  <2>3. /\ Paints(k) <=> slot[o].pc \in {"seo", "picture", "cache"}
        /\ Writes(k) <=> slot[o].pc = "write"
    BY <1>1, <2>1 DEF Paints, Writes, Runs
  <2>4. Cardinality(Strays(k)') =
          IF slot[o].pc \in {"look", "write"} THEN Cardinality(Strays(k)) + 1
          ELSE Cardinality(Strays(k))
    <3>1. CASE slot[o].pc \in {"look", "write"}
      <4>1. Strays(k)' = Strays(k) \union {o} /\ o \notin Strays(k)
        BY <1>1, <1>2, <2>1, <3>1 DEF Strays
      <4> QED
        BY <3>1, <4>1, StraysFinite, FS_AddElement
    <3>2. CASE slot[o].pc \notin {"look", "write"}
      <4>1. Strays(k)' = Strays(k)
        BY <1>1, <1>2, <3>2 DEF Strays
      <4> QED
        BY <3>2, <4>1
    <3> QED
      BY <3>1, <3>2
  <2>5. /\ paid[k] \in Nat /\ excuses[k] \in Nat /\ Cardinality(Strays(k)) \in Nat
        /\ excuses'[k] = excuses[k] + 1 /\ PayOK(k)
    BY <1>1, StraysFinite DEF TypeInv, PayInv
  <2>6. PayOK(k)'
    BY <1>1, <2>2, <2>3, <2>4, <2>5 DEF PayOK, Due
  <2> QED
    BY <1>4, <2>6
<1> QED
  BY <1>3, <1>4

\* A job that has ended has no owner.
LEMMA RemovePays ==
  ASSUME PreviewsAssumption, TypeInv, FitInv, PayInv, NEW k \in HashKeys, Remove(k)
  PROVE  PayInv'
<1> SUFFICES ASSUME NEW l \in HashKeys PROVE PayOK(l)'
  BY DEF PayInv
<1>1. /\ UNCHANGED <<slot, cached, paid, excuses>>
      /\ TaskOK(k) /\ task[k].st \in {"completed", "failed"}
      /\ task'[k].owner = None /\ \A m \in HashKeys \ {k} : task'[m] = task[m]
  BY DEF Remove, books, FitInv, TypeInv, NoJob
<1>2. task'[l].owner = task[l].owner
  BY <1>1 DEF TaskOK
<1> QED
  BY <1>1, <1>2, AsidePays, SamePays

\* A preview that expires is due again, and excused.
LEMMA ExpirePays ==
  ASSUME PreviewsAssumption, TypeInv, FitInv, PayInv, NEW k \in HashKeys, Expire(k)
  PROVE  PayInv'
<1> SUFFICES ASSUME NEW l \in HashKeys PROVE PayOK(l)'
  BY DEF PayInv
<1>1. /\ UNCHANGED <<task, slot, paid>>
      /\ excuses'[k] = excuses[k] + 1
      /\ \A m \in HashKeys \ {k} : excuses'[m] = excuses[m] /\ cached'[m] = cached[m]
  BY DEF Expire, Excuse, TypeInv
<1>2. Same(l)
  BY <1>1, AsidePays
<1>3. CASE l # k
  BY <1>1, <1>2, <1>3, SamePays
<1>4. CASE l = k
  <2>1. /\ paid[k] \in Nat /\ excuses[k] \in Nat /\ Cardinality(Strays(k)) \in Nat
        /\ Due(k) \in {0, 1} /\ Due(k)' \in {0, 1} /\ PayOK(k)
    BY StraysFinite DEF TypeInv, PayInv, Due
  <2> QED
    BY <1>1, <1>2, <1>4, <2>1 DEF PayOK, Same
<1> QED
  BY <1>3, <1>4

----------------------------------------------------------------------------
(* The invariant and the theorem.                                          *)

\* The inductive invariant.
PreviewsInv == PreviewsAssumption /\ TypeInv /\ FitInv /\ ImageInv /\ NewsInv /\ PayInv

\* Stuttering keeps it.
LEMMA Stays ==
  ASSUME PreviewsInv, UNCHANGED previewVars
  PROVE  PreviewsInv'
<1>1. UNCHANGED <<hash, ask, task, slot, cached, pictures, paid, news, kept, excuses,
                  wasted, overlaps, mishaps>>
  BY DEF previewVars
<1>2. TypeInv' /\ FitInv'
  BY <1>1 DEF PreviewsInv, TypeInv, FitInv, AskOK, TaskOK, CacheOK, SlotOK, Key
<1>3. ImageInv'
  BY <1>1, QuietImages DEF PreviewsInv
<1>4. NewsInv'
  BY <1>1 DEF PreviewsInv, NewsInv, NewsOK
<1>5. PayInv'
  BY <1>1, AsidePays, SamePays DEF PreviewsInv, PayInv
<1> QED
  BY <1>2, <1>3, <1>4, <1>5 DEF PreviewsInv, PreviewsAssumption

\* Every action keeps it.
LEMMA Preserved ==
  ASSUME PreviewsInv, Next
  PROVE  PreviewsInv'
<1> USE DEF PreviewsInv
<1>1. ASSUME NEW a \in Asks, Enqueue(a) PROVE PreviewsInv'
  <2>1. ImageInv'
    BY <1>1, QuietImages DEF Enqueue, books
  <2> QED
    BY <1>1, <2>1, EnqueueFits, EnqueueNews, EnqueuePays DEF PreviewsAssumption
<1>2. ASSUME NEW a \in Asks, NEW t \in Themes, Ask(a, t) PROVE PreviewsInv'
  <2>1. UNCHANGED <<task, slot, cached, pictures, paid, news, books>>
    BY <1>2 DEF Ask
  <2>2. ImageInv' /\ NewsInv'
    BY <2>1, QuietImages DEF books, NewsInv, NewsOK
  <2>3. PayInv'
    BY <2>1, AsidePays, SamePays DEF PayInv, books
  <2> QED
    BY <1>2, <2>2, <2>3, AskFits DEF PreviewsAssumption
<1>3. ASSUME NEW s \in Servers, Work(s) PROVE PreviewsInv'
  <2>1. ASSUME NEW k \in HashKeys, Take(s, k) PROVE PreviewsInv'
    BY <2>1, TakeFits, TakeImages, TakeNews, TakePays DEF PreviewsAssumption
  <2>2. CASE Look(s)
    BY <2>2, LookFits, LookImages, LookNews, LookPays DEF PreviewsAssumption
  <2>3. CASE Write(s)
    BY <2>3, WriteFits, WriteImages, WriteNews, WritePays DEF PreviewsAssumption
  <2>4. CASE WriteFails(s)
    BY <2>4, WriteFailsFits, WriteFailsImages, WriteFailsNews, WriteFailsPays
    DEF PreviewsAssumption
  <2>5. CASE Picture(s)
    BY <2>5, PictureFits, PictureImages, PictureNews, PicturePays DEF PreviewsAssumption
  <2>6. CASE PictureFails(s)
    BY <2>6, PictureFailsFits, PictureFailsImages, PictureFailsNews, PictureFailsPays
    DEF PreviewsAssumption
  <2>7. CASE Cache(s)
    BY <2>7, CacheFits, CacheImages, CacheNews, CachePays DEF PreviewsAssumption
  <2>8. CASE Tell(s)
    BY <2>8, TellFits, TellImages, TellNews, TellPays DEF PreviewsAssumption
  <2>9. CASE Return(s)
    <3>1. UNCHANGED <<news, overlaps, cached, paid, excuses>>
      BY <2>9 DEF Return, books
    <3> QED
      BY <2>9, <3>1, ReturnFits, ReturnImages, ReturnFrees, FreedNews, FreedPays
      DEF PreviewsAssumption
  <2>10. CASE Throw(s)
    <3>1. UNCHANGED <<news, overlaps, cached, paid, excuses>>
      BY <2>10 DEF Throw, books
    <3> QED
      BY <2>10, <3>1, ThrowFits, ThrowImages, ThrowFrees, FreedNews, FreedPays
      DEF PreviewsAssumption
  <2>11. CASE Fields(s)
    BY <2>11, FieldsFits, FieldsImages, FieldsNews, FieldsPays DEF PreviewsAssumption
  <2>12. CASE FieldsFail(s)
    BY <2>12, FieldsFailFits, FieldsFailImages, FieldsFailNews, FieldsFailPays
    DEF PreviewsAssumption
  <2> QED
    BY <1>3, <2>1, <2>2, <2>3, <2>4, <2>5, <2>6, <2>7, <2>8, <2>9, <2>10, <2>11,
       <2>12 DEF Work
<1>4. ASSUME NEW s \in Servers, Crash(s) PROVE PreviewsInv'
  BY <1>4, CrashFits, CrashImages, CrashNews, CrashPays DEF PreviewsAssumption
<1>5. ASSUME NEW k \in HashKeys, Recover(k) PROVE PreviewsInv'
  <2>1. ImageInv'
    BY <1>5, QuietImages DEF Recover, books
  <2> QED
    BY <1>5, <2>1, RecoverFits, RecoverNews, RecoverPays DEF PreviewsAssumption
<1>6. ASSUME NEW k \in HashKeys, LoseLock(k) PROVE PreviewsInv'
  <2>1. ImageInv'
    BY <1>6, QuietImages DEF LoseLock
  <2> QED
    BY <1>6, <2>1, LoseLockFits, LoseLockNews, LoseLockPays DEF PreviewsAssumption
<1>7. ASSUME NEW k \in HashKeys, Remove(k) PROVE PreviewsInv'
  <2>1. ImageInv'
    BY <1>7, QuietImages DEF Remove, books
  <2> QED
    BY <1>7, <2>1, RemoveFits, RemoveNews, RemovePays DEF PreviewsAssumption
<1>8. ASSUME NEW k \in HashKeys, Expire(k) PROVE PreviewsInv'
  <2>1. NewsInv'
    BY <1>8 DEF Expire, NewsInv, NewsOK
  <2> QED
    BY <1>8, <2>1, ExpireFits, ExpireImages, ExpirePays DEF PreviewsAssumption
<1> QED
  BY <1>1, <1>2, <1>3, <1>4, <1>5, <1>6, <1>7, <1>8 DEF Next

\* PreviewsInv is an invariant.
LEMMA InvariantCorrect == PreviewsAssumption => (Spec => []PreviewsInv)
<1>1. PreviewsAssumption /\ Init => PreviewsInv
  BY InitFits, InitImages, InitNews, InitPays DEF PreviewsInv
<1>2. PreviewsInv /\ [Next]_previewVars => PreviewsInv'
  BY Preserved, Stays
<1> QED
  BY <1>1, <1>2, PTL DEF Spec

\* It implies the properties of Previews.
LEMMA PreviewsFollow == PreviewsInv => PreviewsAreKept
<1> SUFFICES ASSUME PreviewsInv PROVE PreviewsAreKept
  OBVIOUS
<1> USE DEF PreviewsInv
<1>1. PaidOnce
  <2> SUFFICES ASSUME NEW k \in HashKeys PROVE paid[k] <= 1 + excuses[k]
    BY DEF PaidOnce
  <2>1. /\ paid[k] \in Nat /\ excuses[k] \in Nat /\ Cardinality(Strays(k)) \in Nat
        /\ Due(k) \in {0, 1} /\ PayOK(k)
    BY StraysFinite DEF TypeInv, PayInv, Due
  <2> QED
    BY <2>1 DEF PayOK
<1>2. ImagesHavePreviews
  BY DEF ImageInv, Claimed, ImagesHavePreviews
<1>3. AnswersFit
  <2> SUFFICES ASSUME NEW a \in Asks, ask[a].pc = "answered", ask[a].got.theme # ask[a].theme
               PROVE  \E t \in Themes \ {ask[a].theme} : hash[t] = hash[ask[a].theme]
    BY DEF AnswersFit
  <2>1. ask[a].got \in Previews /\ Key(ask[a].got.theme) = Key(ask[a].theme)
    BY DEF FitInv, AskOK, TypeInv, AskType, MaybePreviews
  <2> QED
    BY <2>1, PreviewFacts DEF Key
<1>4. NewsIsTrue
  BY DEF NewsInv, NewsOK, NewsIsTrue
<1>5. PreviewsTypeOK
  <2>1. \A a \in Asks : /\ ask[a].pc \in {"new", "missed", "waiting", "answered", "refused", "lost"}
                        /\ ask[a].got \in Previews \union {Nothing}
    BY DEF TypeInv, AskType, AskStates, MaybePreviews
  <2>2. ASSUME NEW k \in HashKeys
        PROVE  /\ task[k].st \in {"none", "waiting", "active", "completed", "failed"}
               /\ task[k].tries <= MaxTries
               /\ news[k] \in {"none", "completed", "failed"}
               /\ cached[k] \in Previews \union {Nothing}
               /\ cached[k].image => cached[k].id \in pictures
    <3>1. task[k] \in TaskType /\ cached[k] \in MaybePreviews
      BY DEF TypeInv
    <3>2. cached[k].image => cached[k].id \in pictures
      BY PreviewFacts DEF ImageInv, KeptOK
    <3> QED
      BY <3>1, <3>2 DEF TypeInv, TaskType, TaskStates, MaybePreviews, PreviewsAssumption
  <2> QED
    BY <2>1, <2>2 DEF TypeInv, PreviewsTypeOK
<1> QED
  BY <1>1, <1>2, <1>3, <1>4, <1>5 DEF PreviewsAreKept

\* What becomes of an article that was paid (handler, worker and adapter of the
\* AI preview): it is paid once, and again only for a reason; its image is not
\* forgotten; whoever is answered asked for that hash; the last word about a job
\* that completed is that it did.
THEOREM PreviewsCorrect == PreviewsAssumption => (Spec => []PreviewsAreKept)
BY InvariantCorrect, PreviewsFollow, PTL

=============================================================================
