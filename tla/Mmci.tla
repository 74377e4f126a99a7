-------------------------------- MODULE Mmci --------------------------------
(***************************************************************************)
(* drivers/mmci/mmci.c: one block at a time through the FIFO of the SD     *)
(* card controller, which works at its own pace. The controller and the    *)
(* card are external: the registers are modelled as the driver uses them.  *)
(* The words of a block are numbered, and what is stored under a number    *)
(* is the number of the transfer it came from.                             *)
(***************************************************************************)
EXTENDS Integers, SequencesExt

CONSTANTS SD_BLOCK_SIZE,   \* in words
          FifoDepth,
          Block,           \* the addresses
          MaxTransfers     \* bound on the transfers

ASSUME MmciAssumption ==
    SD_BLOCK_SIZE \in Nat \ {0} /\ FifoDepth \in Nat \ {0} /\ MaxTransfers \in Nat

VARIABLES data_len,    \* DATA_LEN, in words
          fifo,        \* the words in the FIFO
          fifo_cnt,    \* FIFO_CNT: the words that the driver has still to push
          status_err,  \* an error bit of STATUS; it stays until clear()
          card,        \* the words of every block, 0 for none
          job,         \* the transfer that the driver is busy with
          begun,       \* only the first half of its commands has been run
          ctl,         \* the transfer that DCTRL was set for, and the words it lacks
          aim,         \* the one that the card was told of, and its next word
          buffer,      \* what sd_receive has read
          disturbed,   \* ghost: the FIFO was full at a push, or a word moved when only
                       \* the first half of the commands had been run
          spoiled,     \* ghost: the blocks that got such a word
          result       \* the last transfer, and what was returned for it

mmcivars == <<data_len, fifo, fifo_cnt, status_err, card, job, begun, ctl, aim, buffer,
              disturbed, spoiled, result>>

Idle == [kind |-> "none", address |-> 0, number |-> 0]
EmptyBlock == [i \in 1..SD_BLOCK_SIZE |-> 0]

MmciInit ==
    /\ data_len = 0
    /\ fifo = <<>> /\ fifo_cnt = 0
    /\ status_err = FALSE
    /\ card = [b \in Block |-> EmptyBlock]
    /\ job = Idle /\ begun = FALSE
    /\ ctl = [job |-> Idle, lacks |-> 0]
    /\ aim = [job |-> Idle, place |-> 1]
    /\ buffer = <<>>
    /\ disturbed = FALSE /\ spoiled = {}
    /\ result = [job |-> Idle, ret |-> 0, disturbed |-> FALSE, ready |-> FALSE]

\* Every run of a command may leave an error behind.
Command == status_err' \in {status_err, TRUE}

\* The negated error bits.
status(error) == IF error THEN -1 ELSE 0

\* The commands that select the card, and DATA_LEN.
init_sd ==
    /\ job.kind = "none" /\ data_len = 0
    /\ data_len' = SD_BLOCK_SIZE
    /\ Command
    /\ UNCHANGED <<fifo, fifo_cnt, card, job, begun, ctl, aim, buffer, disturbed, spoiled,
                   result>>

\* DCTRL: DISABLE empties the FIFO and ends what the controller still did; SET_READ
\* or SET_WRITE loads the counter.
Enable(next) ==
    /\ fifo' = <<>>
    /\ fifo_cnt' = data_len
    /\ ctl' = [job |-> next, lacks |-> data_len]
    /\ UNCHANGED aim

\* ARG with the address, and CMD 24 or 17: the card goes to the first word of the block.
Address(next) ==
    /\ aim' = [job |-> next, place |-> 1]
    /\ Command
    /\ UNCHANGED <<fifo, fifo_cnt, ctl>>

Begin(kind, address) ==
    /\ job.kind = "none" /\ result.job.number < MaxTransfers
    /\ job' = [kind |-> kind, address |-> address, number |-> result.job.number + 1]
    /\ begun' = TRUE
    /\ buffer' = <<>> /\ disturbed' = FALSE
    /\ UNCHANGED <<data_len, card, spoiled, result>>

\* sd_transmit tells the card first; push_bytes then sets DCTRL.
sd_transmit(address) == Begin("transmit", address) /\ Address(job')

\* sd_receive sets DCTRL first.
sd_receive(address) == Begin("receive", address) /\ Enable(job') /\ UNCHANGED status_err

\* The second half.
RestOfCommands ==
    /\ begun /\ begun' = FALSE
    /\ \/ job.kind = "transmit" /\ Enable(job) /\ UNCHANGED status_err
       \/ job.kind = "receive" /\ Address(job)
    /\ UNCHANGED <<data_len, card, job, buffer, disturbed, spoiled, result>>

\* push_bytes, one word: a word is lost when the FIFO is full.
push_bytes ==
    /\ job.kind = "transmit" /\ ~begun /\ fifo_cnt > 0
    /\ fifo_cnt' = fifo_cnt - 1
    /\ IF Len(fifo) < FifoDepth
       THEN fifo' = Append(fifo, job.number) /\ UNCHANGED disturbed
       ELSE disturbed' = TRUE /\ UNCHANGED fifo
    /\ UNCHANGED <<data_len, status_err, card, job, begun, ctl, aim, buffer, spoiled, result>>

\* A word moves between the FIFO and the card.
Moves ==
    /\ ctl.lacks > 0
    /\ ctl' = [ctl EXCEPT !.lacks = @ - 1]
    /\ disturbed' = (disturbed \/ begun)
    /\ UNCHANGED <<data_len, fifo_cnt, status_err, job, begun, buffer, result>>

\* The blocks that hold a word of another transfer: one more, or one less when all
\* of it is written.
Spoiled ==
    IF begun THEN spoiled \cup {aim.job.address}
    ELSE IF aim.place = SD_BLOCK_SIZE /\ ~disturbed THEN spoiled \ {aim.job.address}
    ELSE spoiled

\* The controller takes a word out of the FIFO, and the card writes it to its block;
\* a word too many is dropped.
CardTakes ==
    /\ ctl.job.kind = "transmit" /\ fifo # <<>>
    /\ fifo' = Tail(fifo)
    /\ Moves
    /\ IF aim.place <= SD_BLOCK_SIZE
       THEN /\ card' = [card EXCEPT ![aim.job.address][aim.place] = Head(fifo)]
            /\ aim' = [aim EXCEPT !.place = @ + 1]
            /\ spoiled' = Spoiled
       ELSE UNCHANGED <<card, aim, spoiled>>

\* The card gives its next word, and the controller puts it into the FIFO.
CardGives ==
    /\ ctl.job.kind = "receive" /\ Len(fifo) < FifoDepth
    /\ aim.job.kind = "receive" /\ aim.place <= SD_BLOCK_SIZE
    /\ fifo' = Append(fifo, card[aim.job.address][aim.place])
    /\ aim' = [aim EXCEPT !.place = @ + 1]
    /\ Moves
    /\ UNCHANGED <<card, spoiled>>

\* pull_bytes, one word, while READ_CNT says that there is one.
pull_bytes ==
    /\ job.kind = "receive" /\ ~begun /\ fifo # <<>>
    /\ buffer' = Append(buffer, Head(fifo))
    /\ fifo' = Tail(fifo)
    /\ UNCHANGED <<data_len, fifo_cnt, status_err, card, job, begun, ctl, aim, disturbed,
                   spoiled, result>>

\* Mutant: sd_receive looks for a word once more than it takes one.
MayReturn_early ==
    \/ job.kind = "transmit" /\ fifo_cnt = 0
    \/ job.kind = "receive" /\ Len(fifo) <= 1

\* The loops end when the counter is 0, and when the FIFO is empty at the moment.
MayReturn ==
    \/ job.kind = "transmit" /\ fifo_cnt = 0
    \/ job.kind = "receive" /\ fifo = <<>>

\* Neither function waits for the controller.
TransferReturns ==
    /\ ~begun /\ MayReturn
    /\ result' = [job |-> job, ret |-> status(status_err),
                  disturbed |-> disturbed \/ (job.kind = "receive" /\ ctl.lacks > 0),
                  ready |-> data_len # 0]
    /\ job' = Idle
    /\ UNCHANGED <<data_len, fifo, fifo_cnt, status_err, card, begun, ctl, aim, buffer,
                   disturbed, spoiled>>

clear ==
    /\ job.kind = "none" /\ status_err
    /\ status_err' = FALSE
    /\ UNCHANGED <<data_len, fifo, fifo_cnt, card, job, begun, ctl, aim, buffer, disturbed,
                   spoiled, result>>

MmciNext ==
    \/ init_sd \/ RestOfCommands \/ push_bytes \/ CardTakes \/ CardGives \/ pull_bytes
    \/ TransferReturns \/ clear
    \/ \E b \in Block : sd_transmit(b) \/ sd_receive(b)

-----------------------------------------------------------------------------
(* What a transfer promises.                                               *)

\* A transfer that was answered with 0 moves its whole block, unless init_sd was not
\* called, the FIFO was full when a word was pushed, it was empty when sd_receive
\* looked, or a word of the transfer before moved between the two halves of the
\* commands. A block that is written is on the card only when the controller is done,
\* which sd_transmit does not wait for: the next transfer cuts off what is missing.
TransferComplete ==
    result.ret = 0 /\ result.ready /\ ~result.disturbed /\ job.kind = "none" =>
        /\ result.job.kind = "transmit" =>
              LET b == card[result.job.address] IN
              /\ ctl.lacks = Len(fifo)
              /\ \A i \in 1..SD_BLOCK_SIZE - ctl.lacks : b[i] = result.job.number
        /\ result.job.kind = "receive" => buffer = card[result.job.address]

\* A block holds words of at most one transfer in front of those of an earlier one,
\* unless the controller moved a word after the card was told of the block and before
\* the FIFO was emptied: then, and only then, what a transfer has left behind gets
\* into the block of the next, until a transfer that was not disturbed fills it.
NoMixedWords ==
    \A b \in Block \ spoiled : \A i, j \in 1..SD_BLOCK_SIZE :
        i < j => card[b][i] >= card[b][j]

\* At whatever pace the controller works, and whatever transfer came before: a block
\* that sd_transmit or sd_receive has answered for is that block and no other, where
\* nothing has disturbed the transfer.
TransferSound == TransferComplete /\ NoMixedWords
=============================================================================
