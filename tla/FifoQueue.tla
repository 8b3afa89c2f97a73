----------------------------- MODULE FifoQueue -----------------------------
(***************************************************************************)
(* The deque m_ops of a HandlerQueue, as far as it is more than a sequence:*)
(* what the loop of HandlerQueue::Expire leaves of it                      *)
(* (src/XrdClCurl/XrdClCurlUtil.cc).                                       *)
(***************************************************************************)
EXTENDS Integers, Sequences

\* The loop of Expire, after n of the operations: those not in S are erased,
\* the others stay in their order.
Kept(s, S) ==
    LET kept[n \in 0..Len(s)] ==
            IF n = 0 THEN << >>
            ELSE IF s[n] \in S THEN Append(kept[n - 1], s[n])
            ELSE kept[n - 1]
    IN  kept[Len(s)]
=============================================================================
