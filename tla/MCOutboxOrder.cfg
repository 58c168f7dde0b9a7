SPECIFICATION OutboxSpec
CONSTANTS
  MaxEvents = 3
  Aggregate <- Interleaved
  Publishers = {p1, p2}
  BatchSize = 2
  MaxFailures = 0
INVARIANT
  AggregateOrder
