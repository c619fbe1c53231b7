-------------------------- MODULE ServiceEntities --------------------------
(***************************************************************************)
(* The entities of booking-service, flight-service and payment-service:    *)
(* the columns each insert lists, split into those without and those with  *)
(* a default or NULL, and the ones that take 36 characters of a UUID.  A   *)
(* property without a column name has its own name for a column.           *)
(***************************************************************************)
EXTENDS ServiceSchemas

WideEntity(table, required, optional, wide) ==
  [table |-> table, required |-> required, optional |-> optional, wide |-> wide]
EntityOf(table, required, optional) == WideEntity(table, required, optional, {})

-----------------------------------------------------------------------------
Booking ==
  WideEntity("bookings", BookingsTable.table.required, BookingsTable.table.optional,
             {"booking_reference"})

SagaState ==
  WideEntity("saga_states", SagaStatesTable.table.required, SagaStatesTable.table.optional,
             {"saga_id", "booking_id"})

OutboxEvent ==
  WideEntity("outbox_events", OutboxEventsTable.table.required,
             OutboxEventsTable.table.optional, {"event_id", "aggregate_id"})

-----------------------------------------------------------------------------
City ==
  EntityOf("cities", {"name", "country"},
    Stamps \cup {"id", "country_code", "timezone", "latitude", "longitude", "active"})

Airport ==
  EntityOf("airports", {"name", "code", "city_id"},
    Stamps \cup {"id", "icao_code", "address", "city_denormalized", "country_denormalized",
                 "latitude", "longitude", "timezone", "active"})

Airplane ==
  EntityOf("airplanes", {"model_number", "manufacturer"},
    Stamps \cup {"id", "registration_number", "total_capacity", "economy_seats",
                 "business_seats", "first_class_seats", "premium_economy_seats",
                 "year_manufactured", "max_range_km", "cruising_speed_kmh", "active"})

Seat == EntityOf("seats", {"airplane_id", "row", "col"}, Stamps \cup {"id", "type"})

Flight ==
  EntityOf("flights",
    {"flight_number", "airplane_id", "departure_airport_id", "arrival_airport_id",
     "departure_time", "arrival_time"}
    \cup {class \o "_price" :
            class \in {"economy", "business", "first_class", "premium_economy"}}
    \cup {class \o "_seats_available" :
            class \in {"economy", "business", "first_class", "premium_economy"}},
    Stamps \cup {"id", "boarding_gate", "terminal", "status", "version"})

ProcessedEvent ==
  EntityOf("processed_events", {"event_id", "event_type", "aggregate_id"},
           {"id", "processed_at"})

-----------------------------------------------------------------------------
PaymentEntity ==
  EntityOf("payments",
    {"booking_id", "user_id", "amount", "payment_method", "gateway", "gateway_payment_id"},
    Stamps \cup
    {"id", "currency", "status", "client_secret", "correlation_id", "failure_code",
     "failure_reason", "confirmed_at", "refunded_at", "expires_at", "metadata", "version"})

Refund ==
  EntityOf("refunds", {"payment_id", "booking_id", "amount"},
    Stamps \cup
    {"id", "reason", "idempotency_key", "status", "gateway_refund_id", "failure_reason",
     "processed_at", "metadata"})

IdempotencyKey ==
  EntityOf("idempotency_keys", {"idempotency_key", "scope", "request_hash"},
    Stamps \cup
    {"id", "resource_type", "resource_id", "status", "response_code", "response_body",
     "last_error", "locked_at", "expires_at"})

LedgerEntry ==
  EntityOf("ledger_entries",
    {"booking_id", "account_code", "entry_type", "direction", "amount", "currency",
     "referenceType", "reference_id", "occurred_at"},
    {"id", "payment_id", "refund_id", "description", "metadata", "created_at"})

WebhookEventEntity ==
  EntityOf("webhook_events", {"gateway", "event_id", "eventType", "payload"},
    Stamps \cup
    {"id", "status", "payment_id", "gateway_payment_id", "payload_hash", "last_error",
     "received_at", "processed_at"})

PaymentAuditLog ==
  EntityOf("payment_audit_log", {"entity_type", "entity_id", "action"},
    {"id", "user_id", "ip_address", "user_agent", "changes", "created_at"})

-----------------------------------------------------------------------------
Entities ==
  [booking |-> {Booking, SagaState, OutboxEvent},
   flight |-> {City, Airport, Airplane, Seat, Flight, ProcessedEvent},
   payment |-> {PaymentEntity, Refund, IdempotencyKey, LedgerEntry, WebhookEventEntity,
                PaymentAuditLog}]

(* Inserting and reading an entity works on a table that has its columns,  *)
(* wide enough, and asks for no other.                                     *)
Fits(s, e) ==
  /\ HasColumns(s, e.table, e.required \cup e.optional)
  /\ s.tables[e.table].required \subseteq e.required \cup e.optional
  /\ s.tables[e.table].narrow \cap e.wide = {}

(* What synchronize makes of an empty database: the tables and enum types  *)
(* of the entities, and the two indexes an entity names.                   *)
SynchronizedTypes ==
  [booking |-> {"bookings_status_enum", "bookings_payment_status_enum",
                "saga_states_status_enum", "outbox_events_status_enum"},
   flight |-> {"seat_type", "flight_status"},
   payment |-> {}]

Synchronized(service) ==
  LET entities == Entities[service]
      of(table) == CHOOSE e \in entities : e.table = table
  IN [types |-> SynchronizedTypes[service],
      tables |-> [t \in {e.table : e \in entities} |->
                    [required |-> of(t).required, optional |-> of(t).optional,
                     narrow |-> {}]],
      indexes |-> IF service # "booking" THEN {}
                  ELSE {[name |-> BookingIndexes[i].name, on |-> "bookings",
                         columns |-> BookingIndexes[i].columns] : i \in {6, 7}},
      keys |-> IF service # "flight" THEN {}
               ELSE {[name |-> "FK_" \o pair[1] \o "_" \o pair[2], on |-> pair[1],
                      to |-> pair[2]] :
                     pair \in {<<"airports", "cities">>, <<"seats", "airplanes">>,
                               <<"flights", "airplanes">>, <<"flights", "airports">>}}]
=============================================================================
