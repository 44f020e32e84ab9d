\* Two transactions that commit in the other order than they insert.
SPECIFICATION FbSpec
CONSTANTS
    Facts = {f1, f2}
    Writers = {w1, w2}
    Consumers = {c1}
    Replicas = {d1}
    PageLimit = 2
    MaxAttempts = 1
    MaxSeq = 2
    MaxLosses = 0
INVARIANT AcknowledgedWasRead
CHECK_DEADLOCK FALSE
