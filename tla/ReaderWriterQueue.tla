--------------------------- MODULE ReaderWriterQueue ---------------------------
(***************************************************************************)
(* moodycamel::ReaderWriterQueue (src/include/reader_writer_queue), the    *)
(* lock-free queue behind each channel of the AudioAdapter: a ring of      *)
(* blocks, each of them a circular buffer.  The producer owns tailBlock    *)
(* and the tails, the consumer owns frontBlock and the fronts; each keeps  *)
(* a shadow copy (localFront, localTail) of the other's index.             *)
(*                                                                         *)
(* Every access to a variable that the other thread writes, and every      *)
(* write that the other thread reads, is an action of its own; what a      *)
(* thread does with variables only it writes goes with the access before.  *)
(* The actions are sequentially consistent, which is what the fences of    *)
(* the code are there for.                                                 *)
(***************************************************************************)
EXTENDS Naturals, Sequences, FiniteSets

SE == INSTANCE SequencesExt

CONSTANTS
  InitialSize,   \* slots of the first block; ceilToPow2(15 + 1) in the code
  MaxBlockSize,  \* MAX_BLOCK_SIZE; 512 in the code
  MaxBlocks,     \* bound of the model: malloc fails beyond it
  MaxEnqueues    \* bound of the model: enqueue calls

ASSUME InitialSizeAssumption == InitialSize \in Nat \ {0, 1}
ASSUME MaxBlockSizeAssumption == MaxBlockSize \in Nat /\ MaxBlockSize >= InitialSize
ASSUME MaxBlocksAssumption == MaxBlocks \in Nat \ {0}
ASSUME MaxEnqueuesAssumption == MaxEnqueues \in Nat

VARIABLES
  frontBlock, tailBlock,
  next, front, tail, localFront, localTail, size, data,   \* of each block
  allocated,          \* blocks 1 .. allocated have been made
  largestBlockSize,
  pPc,                \* where inner_enqueue is
  cPc,                \* where peek or pop is
  cBlock,             \* the block whose front slot it is about to use
  sent, accepted, call, emptyAtCall, result     \* as in module Fifo

pVars     == <<pPc, tailBlock, tail, localFront, sent, accepted>>
cVars     == <<cPc, cBlock, frontBlock, front, call, emptyAtCall, result>>
ring      == <<next, size, allocated, largestBlockSize>>
queueVars == <<pVars, cVars, ring, localTail, data>>

Block == 1 .. MaxBlocks
Made  == 1 .. allocated

QueueInit ==
  /\ frontBlock = 1 /\ tailBlock = 1
  /\ next = [b \in Block |-> IF b = 1 THEN 1 ELSE 0]
  /\ front = [b \in Block |-> 0]
  /\ tail = [b \in Block |-> 0]
  /\ localFront = [b \in Block |-> 0]
  /\ localTail = [b \in Block |-> 0]
  /\ size = [b \in Block |-> IF b = 1 THEN InitialSize ELSE 0]
  /\ data = [b \in Block |-> [i \in 0 .. size[b] - 1 |-> 0]]
  /\ allocated = 1
  /\ largestBlockSize = InitialSize
  /\ pPc = "idle" /\ cPc = "idle" /\ cBlock = 1
  /\ sent = 0
  /\ accepted = TRUE
  /\ call = "none"
  /\ emptyAtCall = FALSE
  /\ result = 0

(* The elements of block b, and of the queue: from the front block along   *)
(* the ring to the tail block.                                             *)
Count(b)    == (size[b] + tail[b] - front[b]) % size[b]
Contents(b) == [i \in 1 .. Count(b) |-> data[b][(front[b] + i - 1) % size[b]]]

Steps(b, n) ==   \* n steps along the ring from b
  LET f[k \in 0 .. n] == IF k = 0 THEN b ELSE next[f[k - 1]] IN f[n]

(* The blocks linked into the ring so far.                                 *)
Linked == Made \ (IF pPc = "link" THEN {allocated} ELSE {})

Items ==
  LET d == CHOOSE n \in 0 .. Cardinality(Linked) - 1 : Steps(frontBlock, n) = tailBlock
  IN  SE!FlattenSeq([n \in 1 .. d + 1 |-> Contents(Steps(frontBlock, n - 1))])

-----------------------------------------------------------------------------
(* inner_enqueue, the producer.                                            *)

After(b, i) == (i + 1) % size[b]

NextTail(b) == After(b, tail[b])

(* Mutant: two slots are kept free.                                        *)
IsFullEarly(b, f) == f \in {NextTail(b), After(b, NextTail(b))}

IsFull(b, f) == NextTail(b) = f

BeginEnqueue ==
  /\ pPc = "idle" /\ sent < MaxEnqueues
  /\ pPc' = IF IsFull(tailBlock, localFront[tailBlock]) THEN "front" ELSE "write"
  /\ UNCHANGED <<tailBlock, tail, localFront, sent, accepted, cVars, ring,
                 localTail, data>>

(* tailBlock_->localFront = tailBlock_->front.load(); how the producer goes *)
(* on if the block is still full.                                          *)
ReadFrontOr(ifFull) ==
  /\ pPc = "front"
  /\ localFront' = [localFront EXCEPT ![tailBlock] = front[tailBlock]]
  /\ pPc' = IF IsFull(tailBlock, front[tailBlock]) THEN ifFull ELSE "write"
  /\ UNCHANGED <<tailBlock, tail, sent, accepted, cVars, ring, localTail, data>>

(* Mutant: what was read is not compared again.                            *)
ReadFrontTrusted == ReadFrontOr("write")

ReadFront == ReadFrontOr("full")

Write ==
  /\ pPc = "write"
  /\ data' = [data EXCEPT ![tailBlock][tail[tailBlock]] = sent + 1]
  /\ pPc' = "publish"
  /\ UNCHANGED <<tailBlock, tail, localFront, sent, accepted, cVars, ring,
                 localTail>>

Publish ==
  /\ pPc = "publish"
  /\ tail' = [tail EXCEPT ![tailBlock] = NextTail(tailBlock)]
  /\ sent' = sent + 1
  /\ accepted' = TRUE
  /\ pPc' = "idle"
  /\ UNCHANGED <<tailBlock, localFront, cVars, ring, localTail, data>>

(* Mutant: the front block is taken for a free one.                        *)
CheckNextUntested ==
  /\ pPc = "full"
  /\ pPc' = IF next[tailBlock] # tailBlock THEN "next" ELSE "alloc"
  /\ UNCHANGED <<tailBlock, tail, localFront, sent, accepted, cVars, ring,
                 localTail, data>>

(* The tail block is full: is there a free block ahead of the front block? *)
CheckNext ==
  /\ pPc = "full"
  /\ pPc' = IF next[tailBlock] # frontBlock THEN "next" ELSE "alloc"
  /\ UNCHANGED <<tailBlock, tail, localFront, sent, accepted, cVars, ring,
                 localTail, data>>

ReadNextFront ==
  /\ pPc = "next"
  /\ localFront' = [localFront EXCEPT ![next[tailBlock]] = front[next[tailBlock]]]
  /\ pPc' = "writeNext"
  /\ UNCHANGED <<tailBlock, tail, sent, accepted, cVars, ring, localTail, data>>

(* The element and the tail of a block the consumer cannot reach yet.      *)
WriteNext ==
  /\ pPc = "writeNext"
  /\ LET b == next[tailBlock]
     IN  /\ data' = [data EXCEPT ![b][tail[b]] = sent + 1]
         /\ tail' = [tail EXCEPT ![b] = NextTail(b)]
  /\ pPc' = "advance"
  /\ UNCHANGED <<tailBlock, localFront, sent, accepted, cVars, ring, localTail>>

(* make_block fails: enqueue returns false.                                *)
AllocFails ==
  /\ pPc = "alloc"
  /\ sent' = sent + 1
  /\ accepted' = FALSE
  /\ pPc' = "idle"
  /\ UNCHANGED <<tailBlock, tail, localFront, cVars, ring, localTail, data>>

(* make_block: a block behind the tail block, holding the element.         *)
Alloc ==
  /\ pPc = "alloc"
  /\ allocated < MaxBlocks
  /\ LET b       == allocated + 1
         newSize == IF largestBlockSize >= MaxBlockSize THEN largestBlockSize
                    ELSE largestBlockSize * 2
     IN  /\ allocated' = b
         /\ largestBlockSize' = newSize
         /\ size' = [size EXCEPT ![b] = newSize]
         /\ data' = [data EXCEPT ![b] = [i \in 0 .. newSize - 1 |->
                                           IF i = 0 THEN sent + 1 ELSE 0]]
         /\ tail' = [tail EXCEPT ![b] = 1]
         /\ localTail' = [localTail EXCEPT ![b] = 1]
         /\ next' = [next EXCEPT ![b] = next[tailBlock]]
  /\ pPc' = "link"
  /\ UNCHANGED <<tailBlock, localFront, sent, accepted, cVars>>

Link ==
  /\ pPc = "link"
  /\ next' = [next EXCEPT ![tailBlock] = allocated]
  /\ pPc' = "advance"
  /\ UNCHANGED <<tailBlock, tail, localFront, sent, accepted, cVars, size,
                 allocated,
                 largestBlockSize, localTail, data>>

AdvanceTail ==
  /\ pPc = "advance"
  /\ tailBlock' = next[tailBlock]
  /\ sent' = sent + 1
  /\ accepted' = TRUE
  /\ pPc' = "idle"
  /\ UNCHANGED <<tail, localFront, cVars, ring, localTail, data>>

Produce ==
  \/ BeginEnqueue \/ ReadFront \/ Write \/ Publish \/ CheckNext \/ ReadNextFront
  \/ WriteNext \/ AllocFails \/ Alloc \/ Link \/ AdvanceTail

-----------------------------------------------------------------------------
(* peek and pop, the consumer.                                             *)

Begin(op) ==
  /\ cPc = "idle"
  /\ call' = op
  /\ emptyAtCall' = (Items = <<>>)
  /\ cBlock' = frontBlock
  /\ cPc' = IF front[frontBlock] # localTail[frontBlock] THEN "slot" ELSE "tail"
  /\ UNCHANGED <<frontBlock, front, result, pVars, ring, localTail, data>>

(* localTail = tail.load(): the front block may have been added to; if it  *)
(* has not, go on as told.                                                 *)
ReadTailOr(here, otherwise) ==
  /\ cPc = here
  /\ localTail' = [localTail EXCEPT ![frontBlock] = tail[frontBlock]]
  /\ cPc' = IF front[frontBlock] # tail[frontBlock] THEN "slot" ELSE otherwise
  /\ UNCHANGED <<cBlock, frontBlock, front, call, emptyAtCall, result, pVars,
                 ring,
                 data>>

ReadTail == ReadTailOr("tail", "tailBlock")

(* frontBlock_ == tailBlock.load(): the queue is empty; otherwise elsewhere*)
(* is where to look on.                                                    *)
ReadTailBlockOr(elsewhere) ==
  /\ cPc = "tailBlock"
  /\ IF frontBlock = tailBlock
     THEN cPc' = "idle" /\ call' = "none" /\ result' = 0
     ELSE cPc' = elsewhere /\ UNCHANGED <<call, result>>
  /\ UNCHANGED <<cBlock, frontBlock, front, emptyAtCall, pVars, ring, localTail,
                 data>>

(* Mutants: the front block is not looked at again before it is left; an   *)
(* empty queue is waited for.                                              *)
ReadTailBlockOnce == ReadTailBlockOr("next")
ReadTailBlockSpin ==
  /\ cPc = "tailBlock"
  /\ cPc' = IF frontBlock = tailBlock THEN "tail" ELSE "again"
  /\ UNCHANGED <<cBlock, frontBlock, front, call, emptyAtCall, result, pVars,
                 ring,
                 localTail, data>>

ReadTailBlock == ReadTailBlockOr("again")

ReadTailAgain == ReadTailOr("again", "next")

(* The front block is empty and the queue goes on in the next one, where   *)
(* pop moves to; peek only looks.  The producer has left the front block   *)
(* and no longer writes its link.                                          *)
LookAtNext ==
  /\ cPc = "next"
  /\ cBlock' = next[frontBlock]
  /\ IF call = "pop"
     THEN /\ localTail' = [localTail EXCEPT ![next[frontBlock]] =
                             tail[next[frontBlock]]]
          /\ cPc' = "advance"
     ELSE /\ cPc' = "slot"
          /\ UNCHANGED localTail
  /\ UNCHANGED <<frontBlock, front, call, emptyAtCall, result, pVars, ring,
                 data>>

AdvanceFront ==
  /\ cPc = "advance"
  /\ frontBlock' = cBlock
  /\ cPc' = "slot"
  /\ UNCHANGED <<cBlock, front, call, emptyAtCall, result, pVars, ring,
                 localTail,
                 data>>

(* The caller of peek reads the element it got a pointer to; pop destroys  *)
(* it and publishes the new front.                                         *)
UseSlot ==
  /\ cPc = "slot"
  /\ result' = data[cBlock][front[cBlock]]
  /\ front' = IF call = "pop"
              THEN [front EXCEPT ![cBlock] = After(cBlock, front[cBlock])]
              ELSE front
  /\ call' = "none"
  /\ cPc' = "idle"
  /\ UNCHANGED <<cBlock, frontBlock, emptyAtCall, pVars, ring, localTail, data>>

Operate ==
  \/ ReadTail \/ ReadTailBlock \/ ReadTailAgain \/ LookAtNext \/ AdvanceFront
  \/ UseSlot

Consume == (\E op \in {"peek", "pop"} : Begin(op)) \/ Operate

-----------------------------------------------------------------------------
QueueNext == Produce \/ Consume

QueueSpec == QueueInit /\ [][QueueNext]_queueVars

(* The consumer's thread is scheduled.                                     *)
QueueFairSpec == QueueSpec /\ WF_queueVars(Operate)

-----------------------------------------------------------------------------
(* Properties.                                                             *)

(* The assertions of the header: the block ahead of the tail block that    *)
(* the producer takes is empty (readerwriterqueue.h:459), and the block    *)
(* the consumer goes on to is not (:317, :368).                            *)
AssertionsHold ==
  /\ pPc = "writeNext" =>
       localFront[next[tailBlock]] = tail[next[tailBlock]]
  /\ cPc = "next" => front[next[frontBlock]] # tail[next[frontBlock]]

(* The two threads never touch the same slot at the same time.             *)
NoSlotRace ==
  pPc \in {"write", "writeNext"} /\ cPc = "slot" =>
    LET b == IF pPc = "write" THEN tailBlock ELSE next[tailBlock]
    IN  <<b, tail[b]>> # <<cBlock, front[cBlock]>>

(* Memory is not wasted: in the ring, every block strictly between the     *)
(* front and the tail block is full, every block behind the tail block is  *)
(* empty but for the element on its way in.                                *)
BlocksUsedUp ==
  LET n     == Cardinality(Linked)
      t     == CHOOSE k \in 0 .. n - 1 : Steps(frontBlock, k) = tailBlock
      onWay == IF pPc = "advance" THEN {next[tailBlock]} ELSE {}
  IN  \A k \in 1 .. n - 1 :
        LET b == Steps(frontBlock, k)
        IN  /\ k < t => Count(b) = size[b] - 1
            /\ k > t => Count(b) = IF b \in onWay THEN 1 ELSE 0

(* The queue is the Fifo it promises to be: an element is enqueued and     *)
(* taken in one instant each, and an operation of the consumer returns     *)
(* however busy the producer is.                                           *)
F == INSTANCE Fifo WITH items <- Items

ImplementsWaitFreeFifo == F!FairSpec
=============================================================================
